---- MODULE Spec2Model ----
(***************************************************************************)
(* A model of dll-pack: the manifest resolver (resolve.rs), the            *)
(* downloader (download.rs), the loader (load.rs) and the three process    *)
(* caches (process_cache.rs, process_cache_single.rs,                      *)
(* process_cache_multi.rs).                                                *)
(*                                                                         *)
(* URLs of dllpack manifests are the integers 1..NumUrls; their integer    *)
(* order stands for the Ord of ManifestInfo that the BTreeMaps of the      *)
(* resolver iterate in.                                                    *)
(***************************************************************************)
EXTENDS Integers, Sequences, FiniteSets, TLC

\* ------------------------------------------------------------------ bounds
NumUrls == 4
MaxDeps == 2
MaxRefs == 4
LoadMaxDeps == 1
LoadMaxRefs == 2
MaxLoads == 2
NumDownloaders == 2
NumFiles == 1
NumPackages == 1
MaxCalls == 3
MaxInvocations == 3
NumThreads == 2
NumKeys == 2

\* ------------------------------------------------------------ data model
Urls == 1..NumUrls

\* env!("TARGET_TRIPLE") and the literal of the fallback.
ThisPlatform == "x86_64-unknown-linux-gnu"
WasmPlatform == "wasm32-wasip1"
Platforms == {ThisPlatform, WasmPlatform}

\* The URL of a raw library: one that is the binary of no manifest.
RawLibUrls == {<<0, "rawlib">>}

\* enum Dependency
DllPack(u) == [type |-> "dllpack", url |-> u]
RawLib(u) == [type |-> "rawlib", url |-> u]
Dependency == {DllPack(u) : u \in Urls} \cup {RawLib(r) : r \in RawLibUrls}

SeqsUpTo(S, n) == UNION {[1..k -> S] : k \in 0..n}

RECURSIVE SumOver(_, _)
SumOver(f, S) ==
    IF S = {} THEN 0
    ELSE LET x == CHOOSE y \in S : TRUE IN f[x] + SumOver(f, S \ {x})

\* struct PlatformManifest of the manifest at URL u for platform p: the binary
\* it names and the dependencies it declares.
PlatformManifest(u, p, deps) == [url |-> <<u, p>>, dependencies |-> deps]

\* The dllpack documents a server may return for URL u: one with another
\* spec-version, and every document of version 1.0.0 whose platform keys are
\* among ps and whose dependency lists have at most n entries each and at
\* most budget entries together.
DllPackFiles(u, ps, n, budget) ==
    LET m == IF n < budget THEN n ELSE budget IN
    {[spec_version |-> "2.0.0", platforms |-> <<>>]} \cup
    {[spec_version |-> "1.0.0", platforms |-> pm] :
        pm \in UNION {
            {[p \in keys |-> PlatformManifest(u, p, d[p])] :
                d \in {e \in [keys -> SeqsUpTo(Dependency, m)] :
                          SumOver([p \in keys |-> Len(e[p])], keys) <= budget}} :
            keys \in SUBSET ps}}

\* A file that File::create made and the body never reached.
TornFile == [torn |-> TRUE]
BinaryFile == [torn |-> FALSE]

\* DllPackFile::from_str: serde succeeds on a complete document, and the
\* spec-version must be "1.0.0".
any_version(content) == content # TornFile
from_str(content) ==
    IF content = TornFile THEN FALSE
    ELSE content.spec_version = "1.0.0"

\* manifest.platforms.get(platform)
NoPlatform == [found |-> FALSE]
GetAsEmpty(u, doc, p) ==
    IF p \in DOMAIN doc.platforms
    THEN [found |-> TRUE, p_manifest |-> doc.platforms[p]]
    ELSE [found |-> TRUE, p_manifest |-> PlatformManifest(u, p, <<>>)]
platforms_get(u, doc, p) ==
    IF p \in DOMAIN doc.platforms
    THEN [found |-> TRUE, p_manifest |-> doc.platforms[p]]
    ELSE NoPlatform

\* DllInfo::from_input(manifest.url, manifest.name, work_dir)
DllInfo(p_manifest) == [url |-> p_manifest.url]

Error(kind, p) == [kind |-> kind, platform |-> p]
NoError == Error("none", "")

\* ------------------------------------------------------------------ state
VARIABLES
    \* the working directory W: W/_manifests/<url> and W/<url>/<name>
    manifest_files, lib_files,
    \* the threads that call the downloader on W: the place each has reached
    \* in download_* / cached_download_*, and its call
    dpc, dcall,
    \* resolve(base_url, work_dir, platform) and its locals
    base_url, platform, rpc, stack,
    result_map, dependency_map, reverse_dependency_map,
    available, remain_deps_counts, unresolved_count,
    dependency_load_order, dependency_load_order_paths,
    resolve_result, fetch_log,
    \* the compiled-module side caches W/<url>/module-cache-<name>.bin
    module_files,
    \* load(url, work_dir) and the locals of load_with_platform / load_with_wasm
    lpc, load_url, load_attempts, dependency_libs, load_result,
    \* the threads that call the process caches: the key of each call, the
    \* place it has reached, the handle it loaded or borrowed, its outcome
    tpc, source, lib, outcome,
    \* every handle that load_with_platform returned, and those dropped since
    handles, dropped,
    \* calls of load_with_platform per key, in order, with their outcomes
    load_log,
    \* static CACHE (process_cache.rs): the map and its Mutex
    CACHE, cache_owner, cache_poisoned, insert_log,
    \* static SINGLE_CACHE (process_cache_single.rs): the map and its Mutex
    SINGLE_CACHE, single_owner, single_poisoned,
    \* static MULTI_CACHE (process_cache_multi.rs): the map; the pools it
    \* points to, each with the holder of its Mutex; the guards
    MULTI_CACHE, pools, pool_arc, guard,
    \* the calls of run_single_cached / run_multi_cached: the entry point of
    \* each thread, whether it ran with no other call in progress, and the
    \* calls that had returned when it began
    calls,
    \* the typed bindings that Library::get_function has returned, and the
    \* calls of Function::call made with them
    functions, invocations,
    \* what the last call of get_all_cached_dependencies returned
    gather_result

downloadVars == <<dpc, dcall>>
fsVars == <<manifest_files, lib_files, downloadVars>>
loadVars == <<module_files, lpc, load_url, load_attempts, dependency_libs, load_result>>
threadVars == <<tpc, source, lib, outcome, handles, dropped, load_log>>
cacheVars == <<CACHE, cache_owner, cache_poisoned, insert_log>>
singleVars == <<SINGLE_CACHE, single_owner, single_poisoned>>
multiVars == <<MULTI_CACHE, pools, pool_arc, guard>>
bindVars == <<functions, invocations>>
gatherVars == <<gather_result>>
callVars == <<calls, bindVars, gatherVars>>
processVars == <<threadVars, cacheVars, singleVars, multiVars, callVars>>
fetchVars == <<stack, result_map, dependency_map, reverse_dependency_map, fetch_log>>
orderVars == <<available, remain_deps_counts, unresolved_count, dependency_load_order>>
resolveVars == <<base_url, platform, rpc, fetchVars, orderVars,
                 dependency_load_order_paths, resolve_result>>

NoResult == [status |-> "none", error |-> NoError, primary |-> <<>>, deps |-> <<>>]
Ok(primary, deps) == [status |-> "ok", error |-> NoError, primary |-> primary, deps |-> deps]
Err(e) == [status |-> "err", error |-> e, primary |-> <<>>, deps |-> <<>>]
Panicked == [status |-> "panic", error |-> NoError, primary |-> <<>>, deps |-> <<>>]

Frame(info) == [info |-> info, deps |-> <<>>, i |-> 1, stage |-> "enter"]

Top == stack[Len(stack)]
SetTop(f) == [stack EXCEPT ![Len(stack)] = f]
Pop(s) == SubSeq(s, 1, Len(s) - 1)

ResolveInit ==
    /\ manifest_files = <<>>
    /\ lib_files = <<>>
    /\ base_url = 1
    /\ platform = ThisPlatform
    /\ rpc = "idle"
    /\ stack = <<>>
    /\ result_map = <<>>
    /\ dependency_map = <<>>
    /\ reverse_dependency_map = <<>>
    /\ available = <<>>
    /\ remain_deps_counts = <<>>
    /\ unresolved_count = 0
    /\ dependency_load_order = <<>>
    /\ dependency_load_order_paths = <<>>
    /\ resolve_result = NoResult
    /\ fetch_log = <<>>

\* ------------------------------------------------------------- downloader
\* Dependency entries in the manifests cached so far.
CachedRefs ==
    LET refs == [u \in DOMAIN manifest_files |->
                    IF manifest_files[u] = TornFile THEN 0
                    ELSE SumOver([p \in DOMAIN manifest_files[u].platforms |->
                                     Len(manifest_files[u].platforms[p].dependencies)],
                                 DOMAIN manifest_files[u].platforms)]
    IN SumOver(refs, DOMAIN manifest_files)

\* fs::File::create(path): the file exists and is empty, whatever it held.
create(files, path) ==
    [q \in DOMAIN files \cup {path} |-> IF q = path THEN TornFile ELSE files[q]]

\* file.write_all(&content) on the handle that File::create returned.
write_all(files, path, content) == [files EXCEPT ![path] = content]

\* What one call of download_* meets: the GET or the status check or the
\* directory or File::create fails; the body breaks off, or write_all fails,
\* after File::create; the whole body is written.
Responses == {"error", "torn", "ok"}

\* download_manifest / download_lib on the directory `files`, for response r
\* with body `content`: its result, whether it sent a GET, the directory after.
download_appending(files, path, r, content) ==
    IF r = "error" THEN [ok |-> FALSE, get |-> TRUE, files |-> files]
    ELSE IF path \in DOMAIN files
    THEN [ok |-> r = "ok", get |-> TRUE, files |-> [files EXCEPT ![path] = TornFile]]
    ELSE [ok |-> r = "ok", get |-> TRUE,
          files |-> write_all(create(files, path), path,
                              IF r = "ok" THEN content ELSE TornFile)]
download_on(files, path, r, content) ==
    IF r = "error" THEN [ok |-> FALSE, get |-> TRUE, files |-> files]
    ELSE IF r = "torn" THEN [ok |-> FALSE, get |-> TRUE, files |-> create(files, path)]
    ELSE [ok |-> TRUE, get |-> TRUE,
          files |-> write_all(create(files, path), path, content)]

\* if path.exists() { return Ok(()) }
revalidates(exists) == FALSE
returns_cached(exists) == exists

cached_download_on(files, path, r, content) ==
    IF returns_cached(path \in DOMAIN files)
    THEN [ok |-> TRUE, get |-> FALSE, files |-> files]
    ELSE download_on(files, path, r, content)

\* download_manifest on the cache directory of the state.  ps, n and refs
\* bound the documents the server may answer with.
download_manifest(u, ps, n, refs) ==
    {download_on(manifest_files, u, r, doc) :
        r \in Responses, doc \in DllPackFiles(u, ps, n, refs - CachedRefs)}

\* On a hit no response is asked for.
cached_download_manifest(u, ps, n, refs) ==
    IF u \in DOMAIN manifest_files
    THEN {cached_download_on(manifest_files, u, "ok", manifest_files[u])}
    ELSE download_manifest(u, ps, n, refs)

download_lib(dll_info) ==
    {download_on(lib_files, dll_info.url, r, BinaryFile) : r \in Responses}

cached_download_lib(dll_info) ==
    {cached_download_on(lib_files, dll_info.url, r, BinaryFile) : r \in Responses}

\* --------------------------------------------------------------- resolver
\* The `?` of an error: every frame of the call is left at once.
ResolveFails(e) ==
    /\ resolve_result' = Err(e)
    /\ rpc' = "done"
    /\ stack' = <<>>

\* resolve is entered: fetch_manifests builds the three maps and calls
\* fetch_manifests_inner on the ManifestInfo of base_url.
resolve_enter(u, p) ==
    /\ base_url' = u
    /\ platform' = p
    /\ rpc' = "fetch"
    /\ stack' = <<Frame(u)>>
    /\ result_map' = <<>>
    /\ dependency_map' = <<>>
    /\ reverse_dependency_map' = <<>>
    /\ fetch_log' = <<>>
    /\ resolve_result' = NoResult
    /\ dependency_load_order_paths' = <<>>
    /\ UNCHANGED <<fsVars, orderVars>>

ResolveCall(u, p) ==
    /\ rpc = "idle"
    /\ resolve_enter(u, p)
    /\ UNCHANGED <<loadVars, processVars>>

\* fetch_manifests_inner up to its loop: cached download, from_file, the
\* lookup of the platform, result_map.insert.
FetchManifest(ps, n, refs) ==
    /\ UNCHANGED <<loadVars, processVars>>
    /\ rpc = "fetch"
    /\ stack # <<>>
    /\ Top.stage = "enter"
    /\ LET u == Top.info IN
       \E o \in cached_download_manifest(u, ps, n, refs) :
          /\ manifest_files' = o.files
          /\ fetch_log' = Append(fetch_log, u)
          /\ IF ~o.ok
             THEN ResolveFails(Error("Download", "")) /\ UNCHANGED result_map
             ELSE IF ~from_str(o.files[u])
             THEN ResolveFails(Error("Parse", "")) /\ UNCHANGED result_map
             ELSE IF ~platforms_get(u, o.files[u], platform).found
             THEN ResolveFails(Error("PlatformNotSupported", platform))
                  /\ UNCHANGED result_map
             ELSE /\ result_map' =
                        [k \in DOMAIN result_map \cup {u} |->
                            IF k = u
                            THEN platforms_get(u, o.files[u], platform).p_manifest
                            ELSE result_map[k]]
                  /\ stack' = SetTop([Top EXCEPT !.stage = "loop"])
                  /\ UNCHANGED <<rpc, resolve_result>>
    /\ UNCHANGED <<lib_files, downloadVars, base_url, platform, dependency_map,
                   reverse_dependency_map, orderVars, dependency_load_order_paths>>

\* reverse_dependency_map.entry(info).or_insert_with(Vec::new).push(base_info)
PushReverse(rev, info, base_info) ==
    [k \in DOMAIN rev \cup {info} |->
        IF k = info
        THEN (IF info \in DOMAIN rev THEN Append(rev[info], base_info) ELSE <<base_info>>)
        ELSE rev[k]]

\* deps.push(info.clone())
deps_push_new(deps, info) ==
    IF \E k \in 1..Len(deps) : deps[k] = info THEN deps ELSE Append(deps, info)
deps_push(deps, info) == Append(deps, info)

\* result_map.contains_key(&info)
never_contains(map, info) == FALSE
contains_key(map, info) == info \in DOMAIN map

\* One turn of the loop over p_manifest.dependencies.
FetchDependency ==
    /\ UNCHANGED <<loadVars, processVars>>
    /\ rpc = "fetch"
    /\ stack # <<>>
    /\ Top.stage = "loop"
    /\ Top.i <= Len(result_map[Top.info].dependencies)
    /\ LET dep == result_map[Top.info].dependencies[Top.i] IN
       \/ /\ dep.type = "rawlib"
          /\ stack' = SetTop([Top EXCEPT !.i = @ + 1])
          /\ UNCHANGED reverse_dependency_map
       \/ /\ dep.type = "dllpack"
          /\ ~contains_key(result_map, dep.url)
          /\ stack' = Append(SetTop([Top EXCEPT !.deps = deps_push(@, dep.url),
                                                !.stage = "call"]),
                             Frame(dep.url))
          /\ UNCHANGED reverse_dependency_map
       \/ /\ dep.type = "dllpack"
          /\ contains_key(result_map, dep.url)
          /\ stack' = SetTop([Top EXCEPT !.deps = deps_push(@, dep.url), !.i = @ + 1])
          /\ reverse_dependency_map' =
                PushReverse(reverse_dependency_map, dep.url, Top.info)
    /\ UNCHANGED <<fsVars, base_url, platform, rpc, result_map, dependency_map,
                   fetch_log, orderVars, dependency_load_order_paths, resolve_result>>

\* dependency_map.insert(base_info, deps); Ok(()): the frame returns, and the
\* caller's turn of the loop ends with its push on reverse_dependency_map.
FetchReturn ==
    /\ UNCHANGED <<loadVars, processVars>>
    /\ rpc = "fetch"
    /\ stack # <<>>
    /\ Top.stage = "loop"
    /\ Top.i > Len(result_map[Top.info].dependencies)
    /\ dependency_map' =
          [k \in DOMAIN dependency_map \cup {Top.info} |->
              IF k = Top.info THEN Top.deps ELSE dependency_map[k]]
    /\ IF Len(stack) = 1
       THEN /\ stack' = <<>>
            /\ rpc' = "order"
            /\ UNCHANGED reverse_dependency_map
       ELSE LET caller == stack[Len(stack) - 1] IN
            /\ stack' = [Pop(stack) EXCEPT ![Len(stack) - 1] =
                            [caller EXCEPT !.i = @ + 1, !.stage = "loop"]]
            /\ reverse_dependency_map' =
                  PushReverse(reverse_dependency_map, Top.info, caller.info)
            /\ UNCHANGED rpc
    /\ UNCHANGED <<fsVars, base_url, platform, result_map, fetch_log, orderVars,
                   dependency_load_order_paths, resolve_result>>

\* The keys of a BTreeMap in the order its iterator yields them.
RECURSIVE Ascending(_)
Ascending(S) ==
    IF S = {} THEN <<>>
    ELSE LET m == CHOOSE x \in S : \A y \in S : x <= y
         IN <<m>> \o Ascending(S \ {m})

\* The locals of the ordering phase, threaded through its loops.  panic is
\* set by an unwrap of None or by a subtraction below zero of a usize.
OrderState(counts, avail, unres, order, panic) ==
    [counts |-> counts, avail |-> avail, unres |-> unres, order |-> order,
     panic |-> panic]

ReleasePrepend(st, m_info) ==
    [st EXCEPT !.avail = Append(@, m_info),
               !.unres = IF @ = 0 THEN 0 ELSE @ - 1,
               !.panic = @ \/ st.unres = 0,
               !.order = IF m_info # base_url THEN <<m_info>> \o @ ELSE @]

ReleaseWithBase(st, m_info) ==
    [st EXCEPT !.avail = Append(@, m_info),
               !.unres = IF @ = 0 THEN 0 ELSE @ - 1,
               !.panic = @ \/ st.unres = 0,
               !.order = Append(@, m_info)]

\* Body of both loops once a count is found to be zero: the node is pushed
\* on available, counted as resolved, and emitted unless it is base_url.
Release(st, m_info) ==
    [st EXCEPT !.avail = Append(@, m_info),
               !.unres = IF @ = 0 THEN 0 ELSE @ - 1,
               !.panic = @ \/ st.unres = 0,
               !.order = IF m_info # base_url THEN Append(@, m_info) ELSE @]

\* for (m_info, count) in remain_deps_counts.iter()
RECURSIVE SeedLoop(_, _)
SeedLoop(st, keys) ==
    IF keys = <<>> \/ st.panic THEN st
    ELSE SeedLoop(IF st.counts[Head(keys)] = 0 THEN Release(st, Head(keys)) ELSE st,
                  Tail(keys))

\* for dep in reverse_dependency_map.get(&url).unwrap_or(&vec![])
RECURSIVE ReverseLoop(_, _)
ReverseLoop(st, rdeps) ==
    IF rdeps = <<>> \/ st.panic THEN st
    ELSE LET dep == Head(rdeps) IN
         IF dep \notin DOMAIN st.counts \/ st.counts[dep] = 0
         THEN [st EXCEPT !.panic = TRUE]
         ELSE LET dec == [st EXCEPT !.counts[dep] = @ - 1] IN
              ReverseLoop(IF dec.counts[dep] = 0 THEN Release(dec, dep) ELSE dec,
                          Tail(rdeps))

SetOrderState(st) ==
    /\ available' = st.avail
    /\ remain_deps_counts' = st.counts
    /\ unresolved_count' = st.unres
    /\ dependency_load_order' = st.order

\* resolve, from the return of fetch_manifests to the while loop: the
\* counters are set up and the nodes without dependencies are released.
ResolveSeed ==
    /\ UNCHANGED <<loadVars, processVars>>
    /\ rpc = "order"
    /\ LET counts == [k \in DOMAIN dependency_map |-> Len(dependency_map[k])]
           st == SeedLoop(OrderState(counts, <<>>, Cardinality(DOMAIN result_map),
                                     <<>>, FALSE),
                          Ascending(DOMAIN counts))
       IN /\ SetOrderState(st)
          /\ IF st.panic
             THEN resolve_result' = Panicked /\ rpc' = "done"
             ELSE rpc' = "kahn" /\ UNCHANGED resolve_result
    /\ UNCHANGED <<fsVars, base_url, platform, fetchVars, dependency_load_order_paths>>

\* available.pop(): what is left of the worklist after its last element was
\* taken.
peek(avail) == avail
pop(avail) == Pop(avail)

\* One turn of `while !available.is_empty()`.
ResolvePop ==
    /\ UNCHANGED <<loadVars, processVars>>
    /\ rpc = "kahn"
    /\ available # <<>>
    /\ LET url == available[Len(available)]
           rdeps == IF url \in DOMAIN reverse_dependency_map
                    THEN reverse_dependency_map[url] ELSE <<>>
           st == ReverseLoop(OrderState(remain_deps_counts, pop(available),
                                        unresolved_count, dependency_load_order,
                                        FALSE),
                             rdeps)
       IN /\ SetOrderState(st)
          /\ IF st.panic
             THEN resolve_result' = Panicked /\ rpc' = "done"
             ELSE UNCHANGED <<rpc, resolve_result>>
    /\ UNCHANGED <<fsVars, base_url, platform, fetchVars, dependency_load_order_paths>>

ResolveCheckSkipped ==
    /\ UNCHANGED <<loadVars, processVars>>
    /\ rpc = "kahn"
    /\ available = <<>>
    /\ rpc' = "libs"
    /\ UNCHANGED <<stack, resolve_result>>
    /\ UNCHANGED <<fsVars, base_url, platform, result_map, dependency_map,
                   reverse_dependency_map, fetch_log, orderVars,
                   dependency_load_order_paths>>

\* The worklist is empty: `if unresolved_count > 0` fails the call.
ResolveCheck ==
    /\ UNCHANGED <<loadVars, processVars>>
    /\ rpc = "kahn"
    /\ available = <<>>
    /\ IF unresolved_count > 0
       THEN ResolveFails(Error("UnresolvedDependencies", platform))
       ELSE rpc' = "libs" /\ UNCHANGED <<stack, resolve_result>>
    /\ UNCHANGED <<fsVars, base_url, platform, result_map, dependency_map,
                   reverse_dependency_map, fetch_log, orderVars,
                   dependency_load_order_paths>>

\* One turn of `for m_info in dependency_load_order.iter()`.
ResolveDownloadDep ==
    /\ UNCHANGED <<loadVars, processVars>>
    /\ rpc = "libs"
    /\ Len(dependency_load_order_paths) < Len(dependency_load_order)
    /\ LET m_info == dependency_load_order[Len(dependency_load_order_paths) + 1]
           dll_info == DllInfo(result_map[m_info])
       IN \E o \in cached_download_lib(dll_info) :
             /\ lib_files' = o.files
             /\ IF o.ok
                THEN /\ dependency_load_order_paths' =
                            Append(dependency_load_order_paths, dll_info)
                     /\ UNCHANGED <<rpc, resolve_result, stack>>
                ELSE /\ ResolveFails(Error("Download", ""))
                     /\ UNCHANGED dependency_load_order_paths
    /\ UNCHANGED <<manifest_files, downloadVars, base_url, platform, result_map,
                   dependency_map, reverse_dependency_map, fetch_log, orderVars>>

\* The binary of base_info, and Ok((dll_info, dependency_load_order_paths)).
ResolveReturn ==
    /\ UNCHANGED <<loadVars, processVars>>
    /\ rpc = "libs"
    /\ Len(dependency_load_order_paths) = Len(dependency_load_order)
    /\ LET dll_info == DllInfo(result_map[base_url]) IN
       \E o \in cached_download_lib(dll_info) :
          /\ lib_files' = o.files
          /\ rpc' = "done"
          /\ resolve_result' = IF o.ok THEN Ok(dll_info, dependency_load_order_paths)
                               ELSE Err(Error("Download", ""))
    /\ UNCHANGED <<manifest_files, downloadVars, base_url, platform, fetchVars,
                   orderVars, dependency_load_order_paths>>

resolve ==
    \/ ResolveSeed
    \/ ResolvePop
    \/ ResolveCheck
    \/ ResolveDownloadDep
    \/ ResolveReturn

fetch_manifests_inner(ps, n, refs) ==
    \/ FetchManifest(ps, n, refs)
    \/ FetchDependency
    \/ FetchReturn

\* -------------------------------------------- get_all_cached_dependencies
\* manifest.platforms is a BTreeMap<String, PlatformManifest>: its iterator
\* yields the keys in string order.
PlatformOrder == <<WasmPlatform, ThisPlatform>>

\* path.exists()
never_exists(files, path) == FALSE
path_exists(files, path) == path \in DOMAIN files

\* The (url.to_string(), path) pairs pushed on result.dependencies: the path
\* of a manifest is under W/_manifests, that of a binary under W/<url>.
CachedManifest(u) == [kind |-> "manifest", url |-> <<u, "dllpack">>]
CachedLib(url) == [kind |-> "lib", url |-> url]

NoGather ==
    [status |-> "not called", url |-> 0, dependencies |-> <<>>, get |-> FALSE,
     parsed |-> <<>>]

\* visited_manifests.insert(base_info.clone()) on the empty BTreeSet
insert_none(u) == {}
insert_base(u) == {u}

\* The locals of the traversal, with the working directory it reads,
\* whether a request was sent, and the manifests given to from_file.
GatherState(u) ==
    [visited_manifests |-> insert_base(u), queue |-> <<u>>, dependencies |-> <<>>,
     err |-> FALSE, get |-> FALSE, parsed |-> <<>>,
     manifest_files |-> manifest_files, lib_files |-> lib_files]

\* for dep in &p_manifest.dependencies
RECURSIVE GatherDependencies(_, _)
GatherDependencies(g, deps) ==
    IF deps = <<>> \/ g.err THEN g
    ELSE LET dep == Head(deps) IN
         IF dep.type = "dllpack"
         THEN IF /\ dep.url \notin g.visited_manifests
                 /\ path_exists(g.manifest_files, dep.url)
              THEN IF ~from_str(g.manifest_files[dep.url])
                   THEN [g EXCEPT !.err = TRUE, !.parsed = Append(@, dep.url)]
                   ELSE GatherDependencies(
                            [g EXCEPT !.dependencies = Append(@, CachedManifest(dep.url)),
                                      !.parsed = Append(@, dep.url),
                                      !.visited_manifests = @ \cup {dep.url},
                                      !.queue = Append(@, dep.url)],
                            Tail(deps))
              ELSE GatherDependencies(g, Tail(deps))
         ELSE GatherDependencies(
                  IF path_exists(g.lib_files, dep.url)
                  THEN [g EXCEPT !.dependencies = Append(@, CachedLib(dep.url))]
                  ELSE g,
                  Tail(deps))

\* for (_platform_name, p_manifest) in &current_file.manifest.platforms
RECURSIVE GatherPlatforms(_, _, _)
GatherPlatforms(g, current_file, keys) ==
    IF keys = <<>> \/ g.err THEN g
    ELSE GatherPlatforms(
             GatherDependencies(g, current_file.platforms[Head(keys)].dependencies),
             current_file, Tail(keys))

\* while let Some(current_file) = queue.pop_front()
RECURSIVE GatherLoop(_)
GatherLoop(g) ==
    IF g.queue = <<>> \/ g.err THEN g
    ELSE LET current_file == g.manifest_files[Head(g.queue)]
             keys == SelectSeq(PlatformOrder,
                               LAMBDA p : p \in DOMAIN current_file.platforms)
         IN GatherLoop(GatherPlatforms([g EXCEPT !.queue = Tail(@)],
                                       current_file, keys))

\* get_all_cached_dependencies(dllpack_url, work_dir): Ok(None) without the
\* top-level manifest, Err when a manifest read does not parse, and otherwise
\* Ok(Some(result)).
get_all_cached_dependencies(u) ==
    LET g0 == GatherState(u) IN
    IF ~path_exists(g0.manifest_files, u)
    THEN [g0 EXCEPT !.dependencies = <<>>] @@ [status |-> "none"]
    ELSE IF ~from_str(g0.manifest_files[u])
    THEN [g0 EXCEPT !.parsed = <<u>>] @@ [status |-> "err"]
    ELSE LET g == GatherLoop([g0 EXCEPT !.parsed = <<u>>]) IN
         IF g.err THEN [g EXCEPT !.dependencies = <<>>] @@ [status |-> "err"]
         ELSE g @@ [status |-> "some"]

GatherCall(u) ==
    LET r == get_all_cached_dependencies(u) IN
    /\ gather_result' = [status |-> r.status, url |-> u,
                         dependencies |-> r.dependencies, get |-> r.get,
                         parsed |-> r.parsed]
    /\ manifest_files' = r.manifest_files
    /\ lib_files' = r.lib_files
    /\ UNCHANGED <<downloadVars, resolveVars, loadVars, threadVars, cacheVars,
                   singleVars, multiVars, calls, bindVars>>

\* ----------------------------------------------------------------- loader
\* enum Library
NativeLibrary(raw_library, raw_dependencies) ==
    [kind |-> "native", raw_library |-> raw_library,
     raw_dependencies |-> raw_dependencies]
WasmLibrary(dll_info) ==
    [kind |-> "wasm", raw_library |-> dll_info, raw_dependencies |-> <<>>]
NoLibrary == [kind |-> "none", raw_library |-> <<>>, raw_dependencies |-> <<>>]

LoadOk(l) == [status |-> "ok", error |-> NoError, library |-> l]
LoadErr(e) == [status |-> "err", error |-> e, library |-> NoLibrary]
NoLoad == [status |-> "none", error |-> NoError, library |-> NoLibrary]

\* fn is_wasm(platform): platform.contains("wasm")
is_wasm(p) == p = WasmPlatform

\* e.downcast_ref::<ResolveError>(): PlatformNotSupported is the one variant.
AnyError(e) == TRUE
is_resolve_error(e) == e.kind = "PlatformNotSupported"

\* One call of resolve made for a load: the package, the platform, how the call
\* ended and, for load_with_wasm, where its Module came from.
Attempt(u, p) == [url |-> u, platform |-> p, outcome |-> "pending", module |-> "none"]
Finish(attempts, o) == [attempts EXCEPT ![Len(attempts)].outcome = o]
Obtained(attempts, how) == [attempts EXCEPT ![Len(attempts)].module = how]
Outcome(r) == IF r.status = "ok" THEN "ok" ELSE r.error.kind

LoadInit ==
    /\ module_files = <<>>
    /\ lpc = "idle"
    /\ load_url = 1
    /\ load_attempts = <<>>
    /\ dependency_libs = <<>>
    /\ load_result = NoLoad

\* load: load_with_platform(url, work_dir, env!("TARGET_TRIPLE")), which is
\* not a wasm platform and enters resolve.
LoadCall(u) ==
    /\ lpc = "idle"
    /\ ~is_wasm(ThisPlatform)
    /\ lpc' = "native"
    /\ load_url' = u
    /\ load_attempts' = <<Attempt(u, ThisPlatform)>>
    /\ resolve_enter(u, ThisPlatform)
    /\ UNCHANGED <<module_files, dependency_libs, load_result, processVars>>

\* resolve has returned to load_with_platform.  An error is returned to load,
\* whose match either calls load_with_wasm(url, work_dir, "wasm32-wasip1") or
\* returns it.
LoadResolved ==
    /\ lpc = "native"
    /\ rpc = "done"
    /\ \/ /\ resolve_result.status = "ok"
          /\ lpc' = "open"
          /\ UNCHANGED <<load_attempts, load_result, fsVars, resolveVars>>
       \/ /\ resolve_result.status = "err"
          /\ is_resolve_error(resolve_result.error)
          /\ lpc' = "wasm"
          /\ load_attempts' =
                Append(Finish(load_attempts, Outcome(resolve_result)),
                       Attempt(load_url, WasmPlatform))
          /\ resolve_enter(load_url, WasmPlatform)
          /\ UNCHANGED load_result
       \/ /\ resolve_result.status = "err"
          /\ ~is_resolve_error(resolve_result.error)
          /\ lpc' = "done"
          /\ load_attempts' = Finish(load_attempts, Outcome(resolve_result))
          /\ load_result' = LoadErr(resolve_result.error)
          /\ UNCHANGED <<fsVars, resolveVars>>
    /\ UNCHANGED <<module_files, load_url, dependency_libs, processVars>>

\* libloading_load(path): the dynamic linker opens a complete binary or
\* fails; it fails on a torn one.
libloading_load(dll_info) ==
    IF lib_files[dll_info.url] = TornFile THEN {FALSE} ELSE {TRUE, FALSE}

\* The element that `for d in dependency_load_order_paths` yields after the
\* libraries of opened were pushed.
last_to_open(deps, opened) == deps[Len(deps) - Len(opened)]
next_to_open(deps, opened) == deps[Len(opened) + 1]

\* One turn of `for d in dependency_load_order_paths`.
LoadOpenDependency ==
    /\ lpc = "open"
    /\ Len(dependency_libs) < Len(resolve_result.deps)
    /\ LET d == next_to_open(resolve_result.deps, dependency_libs) IN
       \E opened \in libloading_load(d) :
          IF opened
          THEN /\ dependency_libs' = Append(dependency_libs, d)
               /\ UNCHANGED <<lpc, load_attempts, load_result>>
          ELSE /\ lpc' = "done"
               /\ dependency_libs' = <<>>
               /\ load_attempts' = Finish(load_attempts, "DlOpen")
               /\ load_result' = LoadErr(Error("DlOpen", ""))
    /\ UNCHANGED <<fsVars, resolveVars, module_files, load_url, processVars>>

\* The base library is opened last: Ok(Library::new_native_library(..)).
LoadOpenBase ==
    /\ lpc = "open"
    /\ Len(dependency_libs) = Len(resolve_result.deps)
    /\ \E opened \in libloading_load(resolve_result.primary) :
          /\ lpc' = "done"
          /\ dependency_libs' = <<>>
          /\ load_attempts' = Finish(load_attempts, IF opened THEN "ok" ELSE "DlOpen")
          /\ load_result' =
                IF opened
                THEN LoadOk(NativeLibrary(resolve_result.primary, dependency_libs))
                ELSE LoadErr(Error("DlOpen", ""))
    /\ UNCHANGED <<fsVars, resolveVars, module_files, load_url, processVars>>

\* if cache_path.exists()
module_never_cached(cache_path) == FALSE
module_cached(cache_path) == cache_path \in DOMAIN module_files

\* load_with_wasm after its resolve: the check of the dependency list, the
\* module from the side cache or compiled and written to it, the instance.
LoadWithWasm ==
    /\ lpc = "wasm"
    /\ rpc = "done"
    /\ lpc' = "done"
    /\ \/ /\ resolve_result.status = "err"
          /\ load_result' = LoadErr(resolve_result.error)
          /\ UNCHANGED module_files
       \/ /\ resolve_result.status = "ok"
          /\ resolve_result.deps # <<>>
          /\ load_result' = LoadErr(Error("WasmWithDependencies", ""))
          /\ UNCHANGED module_files
       \/ /\ resolve_result.status = "ok"
          /\ resolve_result.deps = <<>>
          /\ LET base_info == resolve_result.primary
                 cache_path == base_info.url
             IN IF module_cached(cache_path)
                THEN \* Module::deserialize_file, then the instantiation
                     /\ UNCHANGED module_files
                     /\ load_result' \in
                           IF module_files[cache_path] = TornFile
                           THEN {LoadErr(Error("Wasm", ""))}
                           ELSE {LoadOk(WasmLibrary(base_info)),
                                 LoadErr(Error("Wasm", ""))}
                ELSE \* fs::read and Module::from_binary fail, or fs::write
                     \* fails, or the module is cached and instantiated
                     \/ /\ UNCHANGED module_files
                        /\ load_result' = LoadErr(Error("Wasm", ""))
                     \/ /\ lib_files[base_info.url] # TornFile
                        /\ module_files' = module_files @@ (cache_path :> TornFile)
                        /\ load_result' = LoadErr(Error("Wasm", ""))
                     \/ /\ lib_files[base_info.url] # TornFile
                        /\ module_files' = module_files @@ (cache_path :> BinaryFile)
                        /\ load_result' \in {LoadOk(WasmLibrary(base_info)),
                                             LoadErr(Error("Wasm", ""))}
    /\ load_attempts' =
          Obtained(Finish(load_attempts, Outcome(load_result')),
                   IF resolve_result.status = "err" \/ resolve_result.deps # <<>>
                   THEN "none"
                   ELSE IF module_cached(resolve_result.primary.url)
                        THEN "deserialized" ELSE "compiled")
    /\ UNCHANGED <<fsVars, resolveVars, load_url, dependency_libs, processVars>>

\* load_with_platform(url, work_dir, "wasm32-wasip1"): is_wasm(platform), so
\* load_with_wasm, which enters resolve.  Calls follow one another in one
\* working directory.
WasmCall(u) ==
    /\ lpc \in {"idle", "done"}
    /\ Len(load_attempts) < MaxLoads
    /\ is_wasm(WasmPlatform)
    /\ lpc' = "wasm"
    /\ load_url' = u
    /\ load_attempts' = Append(load_attempts, Attempt(u, WasmPlatform))
    /\ load_result' = NoLoad
    /\ resolve_enter(u, WasmPlatform)
    /\ UNCHANGED <<module_files, dependency_libs, processVars>>

load_with_platform ==
    \/ LoadResolved
    \/ LoadOpenDependency
    \/ LoadOpenBase

\* ------------------------------------ Library::get_function, Function::call
\* A handle of either variant, as load_with_platform returns them.
Libraries ==
    {NativeLibrary(<<1, ThisPlatform>>, <<>>), WasmLibrary(<<1, WasmPlatform>>)}

\* enum Function: the variant, and the handle the binding was taken from.
LLFunction(l) == [variant |-> "LLFunction", library |-> l]
WasmFunction(l) == [variant |-> "WasmFunction", library |-> l]

\* Library::get_function, when the symbol is found: `match self` gives a
\* Symbol of the native library or a TypedFunc of the instance.
get_function(l) == IF l.kind = "native" THEN LLFunction(l) ELSE WasmFunction(l)

\* Function::call(&self, library, args): what can come of it.  The LLFunction
\* arm dereferences the symbol and calls it without a look at `library`; the
\* WasmFunction arm panics unless `library` is a WasmLibrary, and otherwise
\* calls the TypedFunc on its store and unwraps the result, which is an Err
\* when the guest traps.
Function_call(function, library) ==
    IF function.variant = "LLFunction"
    THEN {[executed |-> TRUE, panic |-> FALSE]}
    ELSE IF library.kind # "wasm"
    THEN {[executed |-> FALSE, panic |-> TRUE]}
    ELSE {[executed |-> TRUE, panic |-> FALSE], [executed |-> TRUE, panic |-> TRUE]}

\* let f = library.get_function::<Args, Res>(name)?
GetFunction(l) ==
    /\ functions' = functions \cup {get_function(l)}
    /\ UNCHANGED <<fsVars, resolveVars, loadVars, threadVars, cacheVars,
                   singleVars, multiVars, calls, invocations, gatherVars>>

\* f.call(&mut library, args)
FunctionCall(f, l) ==
    /\ Len(invocations) < MaxInvocations
    /\ \E r \in Function_call(f, l) :
          invocations' = Append(invocations,
                                [function |-> f, library |-> l,
                                 executed |-> r.executed, panic |-> r.panic])
    /\ UNCHANGED <<fsVars, resolveVars, loadVars, threadVars, cacheVars,
                   singleVars, multiVars, calls, functions, gatherVars>>

\* ---------------------------------------------------- the process caches
Threads == 1..NumThreads

\* struct Source { url, platform }
Source(u, p) == [url |-> u, platform |-> p]
Sources == {Source(u, p) : u \in 1..NumKeys, p \in Platforms}

\* What a callback `run` does: it returns Ok, returns Err, or panics.
RunOutcomes == {"ok", "err", "panic"}

\* The entry points that take no platform.
EntryPoints == {"run_single_cached", "run_multi_cached"}

\* The callback of thread t as its caller sees it.  run_*_with_platform hands
\* an Err of the callback on as it is; the no-platform entry points look into
\* it with downcast_ref::<ResolveError>(), so for them an Err that holds a
\* ResolveError (a callback that returns the error of its own call of
\* load_with_platform with `?`) is told apart from any other.
CallbackOutcomes(t) ==
    IF calls[t].fn \in EntryPoints
    THEN RunOutcomes \cup {"PlatformNotSupported"}
    ELSE RunOutcomes

\* What load_with_platform gives a cache: a handle, or one of its errors.
LoadOutcomes == {"ok", "PlatformNotSupported", "DlOpen"}

\* A thread that entered through run_*_cached_with_platform.
NoEntry == [fn |-> "none", alone |-> FALSE, after |-> {}]

\* The Library of a successful load_with_platform: a handle not seen before.
NewLibrary(src) == [id |-> Cardinality(handles) + 1, source |-> src]

\* What a call of load_with_platform for src can return, given the calls for
\* src that have returned: the manifests they left in the working directory
\* are not fetched again, so a platform found missing stays missing and a
\* resolve that succeeded succeeds again.
LoadOutcomesFor(src) ==
    LET seen == {load_log[src][k].result : k \in 1..Len(load_log[src])} IN
    IF "PlatformNotSupported" \in seen THEN {"PlatformNotSupported"}
    ELSE IF "ok" \in seen THEN {"ok", "DlOpen"}
    ELSE LoadOutcomes

Pending(t) == [thread |-> t, result |-> "pending"]
Called(log, src, t) == [log EXCEPT ![src] = Append(@, Pending(t))]
Returned(log, src, t, r) ==
    [log EXCEPT ![src] =
        [k \in 1..Len(@) |->
            IF @[k].thread = t /\ @[k].result = "pending"
            THEN [@[k] EXCEPT !.result = r]
            ELSE @[k]]]

ProcessInit ==
    /\ tpc = [t \in Threads |-> "idle"]
    /\ source = [t \in Threads |-> Source(1, ThisPlatform)]
    /\ lib = [t \in Threads |-> {}]
    /\ outcome = [t \in Threads |-> "none"]
    /\ handles = {}
    /\ dropped = {}
    /\ load_log = [src \in Sources |-> <<>>]
    /\ CACHE = <<>>
    /\ cache_owner = {}
    /\ cache_poisoned = FALSE
    /\ insert_log = <<>>
    /\ SINGLE_CACHE = <<>>
    /\ single_owner = {}
    /\ single_poisoned = FALSE
    /\ MULTI_CACHE = <<>>
    /\ pools = <<>>
    /\ pool_arc = [t \in Threads |-> {}]
    /\ guard = [t \in Threads |-> {}]
    /\ calls = [t \in Threads |-> NoEntry]
    /\ gather_result = NoGather
    /\ functions = {}
    /\ invocations = <<>>

\* A thread calls one of the run_*_with_platform entry points.
Call(t, src, first) ==
    /\ tpc[t] = "idle"
    /\ tpc' = [tpc EXCEPT ![t] = first]
    /\ source' = [source EXCEPT ![t] = src]

\* HashMap::insert: the value is stored and the one it replaces comes back.
insert_if_absent(map, k, v) ==
    [map |-> [x \in DOMAIN map \cup {k} |-> IF x \in DOMAIN map THEN map[x] ELSE v],
     old |-> IF k \in DOMAIN map THEN {v} ELSE {}]
insert(map, k, v) ==
    [map |-> [x \in DOMAIN map \cup {k} |-> IF x = k THEN v ELSE map[x]],
     old |-> IF k \in DOMAIN map THEN {map[k]} ELSE {}]

\* --------------------------------------- process_cache.rs: static CACHE
\* The call records whether CACHE held its key when it began, and how many
\* calls its thread has made.
CacheCall(t, src) ==
    /\ Call(t, src, "lock")
    /\ calls' = [calls EXCEPT ![t] =
                    [fn |-> "run_cached_load_with_platform",
                     cached |-> src \in DOMAIN CACHE,
                     n |-> IF calls[t].fn = "none" THEN 1 ELSE calls[t].n + 1]]
    /\ UNCHANGED <<lib, outcome, handles, dropped, load_log, bindVars, gatherVars>>
    /\ UNCHANGED <<fsVars, resolveVars, loadVars, cacheVars, singleVars, multiVars>>

\* Calls of run_cached_load_with_platform made so far.
CallsMade ==
    SumOver([t \in Threads |-> IF calls[t].fn = "none" THEN 0 ELSE calls[t].n],
            Threads)

\* The thread has its Result and may call again.
CacheAgain(t) ==
    /\ tpc[t] = "done"
    /\ CallsMade < MaxCalls
    /\ tpc' = [tpc EXCEPT ![t] = "idle"]
    /\ outcome' = [outcome EXCEPT ![t] = "none"]
    /\ UNCHANGED <<source, lib, handles, dropped, load_log>>
    /\ UNCHANGED <<fsVars, resolveVars, loadVars, callVars, cacheVars, singleVars, multiVars>>

\* cache.get_mut(&source) is a Some
get_none(map, k) == FALSE
get_mut(map, k) == k \in DOMAIN map

\* CACHE.lock().unwrap() and cache.get_mut(&source): a hit runs the callback
\* under the lock, a miss drops the guard and calls load_with_platform.
CacheLookup(t) ==
    /\ tpc[t] = "lock"
    /\ cache_owner = {}
    /\ IF cache_poisoned
       THEN /\ tpc' = [tpc EXCEPT ![t] = "done"]
            /\ outcome' = [outcome EXCEPT ![t] = "panic"]
            /\ UNCHANGED <<cache_owner, load_log>>
       ELSE IF get_mut(CACHE, source[t])
       THEN /\ tpc' = [tpc EXCEPT ![t] = "run_hit"]
            /\ cache_owner' = {t}
            /\ UNCHANGED <<outcome, load_log>>
       ELSE /\ tpc' = [tpc EXCEPT ![t] = "load"]
            /\ load_log' = Called(load_log, source[t], t)
            /\ UNCHANGED <<outcome, cache_owner>>
    /\ UNCHANGED <<source, lib, handles, dropped, CACHE, cache_poisoned, insert_log>>
    /\ UNCHANGED <<fsVars, resolveVars, loadVars, callVars, singleVars, multiVars>>

\* `return run(lib)`: the callback ends and the guard is dropped, by a panic
\* with the Mutex poisoned.
CacheHitReturn(t) ==
    /\ tpc[t] = "run_hit"
    /\ \E o \in RunOutcomes :
          /\ outcome' = [outcome EXCEPT ![t] = o]
          /\ cache_poisoned' = (cache_poisoned \/ o = "panic")
    /\ tpc' = [tpc EXCEPT ![t] = "done"]
    /\ cache_owner' = {}
    /\ UNCHANGED <<source, lib, handles, dropped, load_log, CACHE, insert_log>>
    /\ UNCHANGED <<fsVars, resolveVars, loadVars, callVars, singleVars, multiVars>>

\* load_with_platform(url, work_dir, platform)? returns.
CacheLoaded(t) ==
    /\ tpc[t] = "load"
    /\ \E r \in LoadOutcomesFor(source[t]) :
          /\ load_log' = Returned(load_log, source[t], t, r)
          /\ IF r = "ok"
             THEN /\ handles' = handles \cup {NewLibrary(source[t])}
                  /\ lib' = [lib EXCEPT ![t] = {NewLibrary(source[t])}]
                  /\ tpc' = [tpc EXCEPT ![t] = "run_miss"]
                  /\ UNCHANGED outcome
             ELSE /\ outcome' = [outcome EXCEPT ![t] = r]
                  /\ tpc' = [tpc EXCEPT ![t] = "done"]
                  /\ UNCHANGED <<handles, lib>>
    /\ UNCHANGED <<source, dropped, cacheVars>>
    /\ UNCHANGED <<fsVars, resolveVars, loadVars, callVars, singleVars, multiVars>>

\* `let res = run(&mut lib)` ends, no lock held; a panic drops lib.
CacheRan(t) ==
    /\ tpc[t] = "run_miss"
    /\ \E o \in RunOutcomes :
          /\ outcome' = [outcome EXCEPT ![t] = o]
          /\ IF o = "panic"
             THEN /\ tpc' = [tpc EXCEPT ![t] = "done"]
                  /\ dropped' = dropped \cup lib[t]
                  /\ lib' = [lib EXCEPT ![t] = {}]
             ELSE /\ tpc' = [tpc EXCEPT ![t] = "insert"]
                  /\ UNCHANGED <<dropped, lib>>
    /\ UNCHANGED <<source, handles, load_log, cacheVars>>
    /\ UNCHANGED <<fsVars, resolveVars, loadVars, callVars, singleVars, multiVars>>

\* CACHE.lock().unwrap(); cache.insert(source, lib); drop(cache); res
CacheInsert(t) ==
    /\ tpc[t] = "insert"
    /\ cache_owner = {}
    /\ tpc' = [tpc EXCEPT ![t] = "done"]
    /\ lib' = [lib EXCEPT ![t] = {}]
    /\ IF cache_poisoned
       THEN /\ outcome' = [outcome EXCEPT ![t] = "panic"]
            /\ dropped' = dropped \cup lib[t]
            /\ UNCHANGED <<CACHE, insert_log>>
       ELSE LET h == CHOOSE x \in lib[t] : TRUE
                r == insert(CACHE, source[t], h)
            IN /\ CACHE' = r.map
               /\ dropped' = dropped \cup r.old
               /\ insert_log' = Append(insert_log, [thread |-> t, library |-> h])
               /\ UNCHANGED outcome
    /\ UNCHANGED <<source, handles, load_log, cache_owner, cache_poisoned>>
    /\ UNCHANGED <<fsVars, resolveVars, loadVars, callVars, singleVars, multiVars>>

run_cached_load_with_platform(t) ==
    \/ CacheLookup(t)
    \/ CacheHitReturn(t)
    \/ CacheLoaded(t)
    \/ CacheRan(t)
    \/ CacheInsert(t)

\* ------------------------- process_cache_single.rs: static SINGLE_CACHE
SingleCall(t, src) ==
    /\ Call(t, src, "lock")
    /\ UNCHANGED <<lib, outcome, handles, dropped, load_log>>
    /\ UNCHANGED <<fsVars, resolveVars, loadVars, callVars, cacheVars, singleVars, multiVars>>

\* The MutexGuard `cache` after the lookup: it lives to the end of the
\* function, on a hit and on a miss.
dropped_on_miss(t, hit) == IF hit THEN {t} ELSE {}
guard_after_lookup(t, hit) == {t}

\* Whether `cache.insert(source, lib)` is reached after the callback: it is
\* unless the callback panicked.
inserts_on_ok(o) == o = "ok"
inserts_after(o) == o # "panic"

\* SINGLE_CACHE.lock().unwrap() and cache.get_mut(&source): a hit runs the
\* callback, a miss calls load_with_platform, both under the lock.
SingleLookup(t) ==
    /\ tpc[t] = "lock"
    /\ single_owner = {}
    /\ IF single_poisoned
       THEN /\ tpc' = [tpc EXCEPT ![t] = "done"]
            /\ outcome' = [outcome EXCEPT ![t] = "panic"]
            /\ UNCHANGED <<single_owner, load_log>>
       ELSE IF source[t] \in DOMAIN SINGLE_CACHE
       THEN /\ tpc' = [tpc EXCEPT ![t] = "run_hit"]
            /\ single_owner' = guard_after_lookup(t, TRUE)
            /\ UNCHANGED <<outcome, load_log>>
       ELSE /\ tpc' = [tpc EXCEPT ![t] = "load"]
            /\ single_owner' = guard_after_lookup(t, FALSE)
            /\ load_log' = Called(load_log, source[t], t)
            /\ UNCHANGED outcome
    /\ UNCHANGED <<source, lib, handles, dropped, SINGLE_CACHE, single_poisoned>>
    /\ UNCHANGED <<fsVars, resolveVars, loadVars, callVars, cacheVars, multiVars>>

\* `return run(lib)`: the callback ends and the guard is dropped, by a panic
\* with the Mutex poisoned.
SingleHitReturn(t) ==
    /\ tpc[t] = "run_hit"
    /\ \E o \in CallbackOutcomes(t) :
          /\ outcome' = [outcome EXCEPT ![t] = o]
          /\ single_poisoned' = (single_poisoned \/ o = "panic")
    /\ tpc' = [tpc EXCEPT ![t] = "done"]
    /\ single_owner' = single_owner \ {t}
    /\ UNCHANGED <<source, lib, handles, dropped, load_log, SINGLE_CACHE>>
    /\ UNCHANGED <<fsVars, resolveVars, loadVars, callVars, cacheVars, multiVars>>

\* load_with_platform(url, work_dir, platform)? returns.
SingleLoaded(t) ==
    /\ tpc[t] = "load"
    /\ \E r \in LoadOutcomesFor(source[t]) :
          /\ load_log' = Returned(load_log, source[t], t, r)
          /\ IF r = "ok"
             THEN /\ handles' = handles \cup {NewLibrary(source[t])}
                  /\ lib' = [lib EXCEPT ![t] = {NewLibrary(source[t])}]
                  /\ tpc' = [tpc EXCEPT ![t] = "run_miss"]
                  /\ UNCHANGED <<outcome, single_owner>>
             ELSE /\ outcome' = [outcome EXCEPT ![t] = r]
                  /\ tpc' = [tpc EXCEPT ![t] = "done"]
                  /\ single_owner' = single_owner \ {t}
                  /\ UNCHANGED <<handles, lib>>
    /\ UNCHANGED <<source, dropped, SINGLE_CACHE, single_poisoned>>
    /\ UNCHANGED <<fsVars, resolveVars, loadVars, callVars, cacheVars, multiVars>>

\* `let result = run(&mut lib); cache.insert(source, lib); result`
SingleMissReturn(t) ==
    /\ tpc[t] = "run_miss"
    /\ \E o \in CallbackOutcomes(t) :
          /\ outcome' = [outcome EXCEPT ![t] = o]
          /\ single_poisoned' = (single_poisoned \/ (o = "panic" /\ t \in single_owner))
          /\ IF inserts_after(o)
             THEN LET r == insert(SINGLE_CACHE, source[t], CHOOSE x \in lib[t] : TRUE)
                  IN /\ SINGLE_CACHE' = r.map
                     /\ dropped' = dropped \cup r.old
             ELSE /\ dropped' = dropped \cup lib[t]
                  /\ UNCHANGED SINGLE_CACHE
    /\ lib' = [lib EXCEPT ![t] = {}]
    /\ tpc' = [tpc EXCEPT ![t] = "done"]
    /\ single_owner' = single_owner \ {t}
    /\ UNCHANGED <<source, handles, load_log>>
    /\ UNCHANGED <<fsVars, resolveVars, loadVars, callVars, cacheVars, multiVars>>

\* SINGLE_CACHE.lock() by the thread that holds the MutexGuard: std's Mutex
\* is not reentrant, and the call does not return: the thread deadlocks or
\* panics, as the platform's implementation has it.
RelockOutcomes == {"deadlock", "panic"}

\* The callback of thread t, running under the guard, calls
\* run_single_cached_with_platform (for any key): the nested call stops at
\* its first statement, SINGLE_CACHE.lock().  A panic unwinds the callback
\* and the outer call, which poisons the Mutex and drops a handle that was
\* not yet inserted.
SingleReenter(t) ==
    /\ tpc[t] \in {"run_hit", "run_miss"}
    /\ t \in single_owner
    /\ \E b \in RelockOutcomes :
          IF b = "deadlock"
          THEN /\ tpc' = [tpc EXCEPT ![t] = "deadlocked"]
               /\ UNCHANGED <<lib, outcome, dropped, single_owner, single_poisoned>>
          ELSE /\ tpc' = [tpc EXCEPT ![t] = "done"]
               /\ outcome' = [outcome EXCEPT ![t] = "panic"]
               /\ single_poisoned' = TRUE
               /\ single_owner' = single_owner \ {t}
               /\ dropped' = dropped \cup lib[t]
               /\ lib' = [lib EXCEPT ![t] = {}]
    /\ UNCHANGED <<source, handles, load_log, SINGLE_CACHE>>
    /\ UNCHANGED <<fsVars, resolveVars, loadVars, callVars, cacheVars, multiVars>>

run_single_cached_with_platform(t) ==
    \/ SingleLookup(t)
    \/ SingleHitReturn(t)
    \/ SingleLoaded(t)
    \/ SingleMissReturn(t)

\* --------------------------- process_cache_multi.rs: static MULTI_CACHE
\* ResourcePool::new(), behind its Mutex: owner is the thread holding it, and
\* peak records the greatest value in_use_count has had.
ResourcePool == [available |-> <<>>, in_use_count |-> 0, owner |-> {}, peak |-> 0]

\* self.in_use_count += 1
in_use(pool) ==
    [pool EXCEPT !.in_use_count = @ + 1,
                 !.peak = IF pool.in_use_count + 1 > @ THEN pool.in_use_count + 1 ELSE @]

\* return_resource: self.available.push(lib); self.in_use_count -= 1
forget_resource(pool, l) == [pool EXCEPT !.in_use_count = @ - 1]
return_resource(pool, l) ==
    [pool EXCEPT !.available = Append(@, l), !.in_use_count = @ - 1]

\* `if let Some(lib) = self.available.pop()`: whether a handle is idle.
never_idle(idle) == FALSE
has_idle(idle) == idle # <<>>

\* The pool a thread's pool_arc points to.
Pool(t) == CHOOSE k \in pool_arc[t] : TRUE

\* self.available.pop(): the last handle leaves the stack.
peek_resource(idle) == [lib |-> idle[Len(idle)], rest |-> idle]
pop_resource(idle) == [lib |-> idle[Len(idle)], rest |-> Pop(idle)]

\* Whether ResourceGuard::drop runs when the callback ends with outcome o:
\* the guard is a local of run_multi_cached_with_platform, dropped on return
\* and on unwinding.
guard_dropped_on_return(o) == o # "panic"
guard_dropped(o) == TRUE

\* `drop(pool)` before Ok(ResourceGuard::new(..)): the holder of the pool's
\* Mutex when get_library_resource returns to the caller of thread t.
held_by_guard(t) == {t}
dropped_pool(t) == {}

\* `load_with_platform(..)?` in get_or_create_resource returns the error
\* before `self.in_use_count += 1`; the MutexGuard is dropped on the way out.
counted_before_load(pool) == in_use([pool EXCEPT !.owner = {}])
failed_load(pool) == [pool EXCEPT !.owner = {}]

MultiCall(t, src) ==
    /\ Call(t, src, "read")
    /\ UNCHANGED <<lib, outcome, handles, dropped, load_log>>
    /\ UNCHANGED <<fsVars, resolveVars, loadVars, callVars, cacheVars, singleVars, multiVars>>

\* get_library_resource, step 1 under MULTI_CACHE.read(): the pool of the
\* key is cloned; without one the read guard is dropped for a write.
MultiRead(t) ==
    /\ tpc[t] = "read"
    /\ IF source[t] \in DOMAIN MULTI_CACHE
       THEN /\ pool_arc' = [pool_arc EXCEPT ![t] = {MULTI_CACHE[source[t]]}]
            /\ tpc' = [tpc EXCEPT ![t] = "pool"]
       ELSE /\ tpc' = [tpc EXCEPT ![t] = "write"]
            /\ UNCHANGED pool_arc
    /\ UNCHANGED <<source, lib, outcome, handles, dropped, load_log>>
    /\ UNCHANGED <<MULTI_CACHE, pools, guard>>
    /\ UNCHANGED <<fsVars, resolveVars, loadVars, callVars, cacheVars, singleVars>>

\* write_map.entry(k).or_insert_with(|| v): the map after, the value of the
\* entry, and whether v was built.
entry_insert(map, k, v) ==
    [map |-> insert(map, k, v).map, entry |-> v, created |-> TRUE]
or_insert_with(map, k, v) ==
    IF k \in DOMAIN map
    THEN [map |-> map, entry |-> map[k], created |-> FALSE]
    ELSE [map |-> insert(map, k, v).map, entry |-> v, created |-> TRUE]

\* Under MULTI_CACHE.write(): entry(source).or_insert_with(new pool).
MultiWrite(t) ==
    /\ tpc[t] = "write"
    /\ LET e == or_insert_with(MULTI_CACHE, source[t], Len(pools) + 1) IN
       /\ pools' = IF e.created THEN Append(pools, ResourcePool) ELSE pools
       /\ MULTI_CACHE' = e.map
       /\ pool_arc' = [pool_arc EXCEPT ![t] = {e.entry}]
    /\ tpc' = [tpc EXCEPT ![t] = "pool"]
    /\ UNCHANGED <<source, lib, outcome, handles, dropped, load_log, guard>>
    /\ UNCHANGED <<fsVars, resolveVars, loadVars, callVars, cacheVars, singleVars>>

\* Step 2: pool_arc.lock().unwrap() and get_or_create_resource.  An idle
\* handle is popped and the lock dropped; without one load_with_platform is
\* called under the lock.
MultiBorrow(t) ==
    /\ tpc[t] = "pool"
    /\ pools[Pool(t)].owner = {}
    /\ IF has_idle(pools[Pool(t)].available)
       THEN LET r == pop_resource(pools[Pool(t)].available) IN
            /\ pools' = [pools EXCEPT
                            ![Pool(t)] = in_use([@ EXCEPT !.available = r.rest,
                                                          !.owner = dropped_pool(t)])]
            /\ lib' = [lib EXCEPT ![t] = {r.lib}]
            /\ guard' = [guard EXCEPT ![t] = {r.lib}]
            /\ tpc' = [tpc EXCEPT ![t] = "run"]
            /\ UNCHANGED load_log
       ELSE /\ pools' = [pools EXCEPT ![Pool(t)].owner = {t}]
            /\ tpc' = [tpc EXCEPT ![t] = "load"]
            /\ load_log' = Called(load_log, source[t], t)
            /\ UNCHANGED <<lib, guard>>
    /\ UNCHANGED <<source, outcome, handles, dropped, MULTI_CACHE, pool_arc>>
    /\ UNCHANGED <<fsVars, resolveVars, loadVars, callVars, cacheVars, singleVars>>

\* load_with_platform(&source.url, work_dir, platform)? returns under the
\* pool's lock; the handle goes into a ResourceGuard.
MultiLoaded(t) ==
    /\ tpc[t] = "load"
    /\ \E r \in LoadOutcomesFor(source[t]) :
          /\ load_log' = Returned(load_log, source[t], t, r)
          /\ IF r = "ok"
             THEN /\ handles' = handles \cup {NewLibrary(source[t])}
                  /\ lib' = [lib EXCEPT ![t] = {NewLibrary(source[t])}]
                  /\ guard' = [guard EXCEPT ![t] = {NewLibrary(source[t])}]
                  /\ pools' = [pools EXCEPT
                                  ![Pool(t)] = in_use([@ EXCEPT !.owner = dropped_pool(t)])]
                  /\ tpc' = [tpc EXCEPT ![t] = "run"]
                  /\ UNCHANGED outcome
             ELSE /\ outcome' = [outcome EXCEPT ![t] = r]
                  /\ pools' = [pools EXCEPT ![Pool(t)] = failed_load(@)]
                  /\ tpc' = [tpc EXCEPT ![t] = "done"]
                  /\ UNCHANGED <<handles, lib, guard>>
    /\ UNCHANGED <<source, dropped, MULTI_CACHE, pool_arc>>
    /\ UNCHANGED <<fsVars, resolveVars, loadVars, callVars, cacheVars, singleVars>>

\* run(guard.library_mut()) ends, no lock held.
MultiRan(t) ==
    /\ tpc[t] = "run"
    /\ \E o \in CallbackOutcomes(t) :
          /\ outcome' = [outcome EXCEPT ![t] = o]
          /\ tpc' = [tpc EXCEPT ![t] = IF guard_dropped(o) THEN "drop" ELSE "done"]
    /\ UNCHANGED <<source, lib, handles, dropped, load_log, multiVars>>
    /\ UNCHANGED <<fsVars, resolveVars, loadVars, callVars, cacheVars, singleVars>>

\* ResourceGuard::drop: library.take(), pool.lock().unwrap(),
\* return_resource(lib).
MultiDrop(t) ==
    /\ tpc[t] = "drop"
    /\ pools[Pool(t)].owner = {}
    /\ pools' = [pools EXCEPT
                    ![Pool(t)] = return_resource(@, CHOOSE x \in guard[t] : TRUE)]
    /\ guard' = [guard EXCEPT ![t] = {}]
    /\ tpc' = [tpc EXCEPT ![t] = "done"]
    /\ UNCHANGED <<source, lib, outcome, handles, dropped, load_log>>
    /\ UNCHANGED <<MULTI_CACHE, pool_arc>>
    /\ UNCHANGED <<fsVars, resolveVars, loadVars, callVars, cacheVars, singleVars>>

get_library_resource(t) ==
    \/ MultiRead(t)
    \/ MultiWrite(t)
    \/ MultiBorrow(t)
    \/ MultiLoaded(t)

run_multi_cached_with_platform(t) ==
    \/ get_library_resource(t)
    \/ MultiRan(t)
    \/ MultiDrop(t)


\* ------------------- run_single_cached_impl and run_multi_cached_impl

\* The Err(e) arm of the match with e.downcast_ref::<ResolveError>() a Some:
\* the call for env!("TARGET_TRIPLE") has returned an error that is one.
FallsBack(t) ==
    /\ calls[t].fn \in EntryPoints
    /\ tpc[t] = "done"
    /\ source[t].platform = ThisPlatform
    /\ outcome[t] \notin {"none", "ok", "panic"}
    /\ is_resolve_error(Error(outcome[t], ""))

\* A call that has begun and not returned to its caller.
Active(t) == tpc[t] \notin {"idle", "done"} \/ FallsBack(t)
Finished(t) == tpc[t] = "done" /\ ~FallsBack(t)

FirstStep(fn) == IF fn = "run_single_cached" THEN "lock" ELSE "read"

\* run_single_cached / run_multi_cached: run_*_with_platform(url, work_dir,
\* env!("TARGET_TRIPLE"), run).
RunCached(t, fn, u) ==
    /\ Call(t, Source(u, ThisPlatform), FirstStep(fn))
    /\ calls' = [o \in Threads |->
                    IF o = t
                    THEN [fn |-> fn,
                          alone |-> \A x \in Threads \ {t} : ~Active(x),
                          after |-> {x \in Threads : Finished(x)}]
                    ELSE IF Active(o) THEN [calls[o] EXCEPT !.alone = FALSE]
                    ELSE calls[o]]
    /\ UNCHANGED <<lib, outcome, handles, dropped, load_log, bindVars, gatherVars>>
    /\ UNCHANGED <<fsVars, resolveVars, loadVars, cacheVars, singleVars, multiVars>>

\* run_*_with_platform(url, work_dir, "wasm32-wasip1", run)
Fallback(t) ==
    /\ FallsBack(t)
    /\ tpc' = [tpc EXCEPT ![t] = FirstStep(calls[t].fn)]
    /\ source' = [source EXCEPT ![t] = Source(source[t].url, WasmPlatform)]
    /\ outcome' = [outcome EXCEPT ![t] = "none"]
    /\ UNCHANGED <<lib, handles, dropped, load_log>>
    /\ UNCHANGED <<fsVars, resolveVars, loadVars, callVars, cacheVars, singleVars, multiVars>>

run_cached_impl(t) ==
    \/ Fallback(t)
    \/ calls[t].fn = "run_single_cached" /\ run_single_cached_with_platform(t)
    \/ calls[t].fn = "run_multi_cached" /\ run_multi_cached_with_platform(t)

\* ------------------------------------------- the downloader, step by step
\* Threads that call the four functions of download.rs on one working
\* directory, each call taken apart at the steps that read or write it.
Downloaders == 1..NumDownloaders
DownloadFns ==
    {"download_manifest", "cached_download_manifest",
     "download_lib", "cached_download_lib"}
is_manifest(fn) == fn \in {"download_manifest", "cached_download_manifest"}
is_cached(fn) == fn \in {"cached_download_manifest", "cached_download_lib"}

\* manifest_info.path / dll_info.path, named by the URL they are derived from
Paths(fn) ==
    IF is_manifest(fn) THEN 1..NumFiles ELSE {<<u, ThisPlatform>> : u \in 1..NumFiles}

\* res.bytes() of a successful response
Bodies(fn, path) ==
    IF is_manifest(fn) THEN DllPackFiles(path, {ThisPlatform}, 0, 0) ELSE {BinaryFile}

FilesOf(fn) == IF is_manifest(fn) THEN manifest_files ELSE lib_files
SetFiles(fn, files) ==
    IF is_manifest(fn)
    THEN manifest_files' = files /\ UNCHANGED lib_files
    ELSE lib_files' = files /\ UNCHANGED manifest_files

\* A call: the function, the path, what path.exists() answered, whether a
\* GET was sent, whether File::create returned a handle, the body, the
\* result, and whether a call of the function for the path had returned Ok
\* before it began.
NoCall ==
    [fn |-> "none", path |-> 0, existed |-> FALSE, get |-> FALSE,
     created |-> FALSE, content |-> TornFile,
     result |-> "none", again |-> FALSE]
DownloadEnds(t, call, r) ==
    /\ dpc' = [dpc EXCEPT ![t] = "done"]
    /\ dcall' = [dcall EXCEPT ![t] = [call EXCEPT !.result = r]]

DownloadInit ==
    /\ dpc = [t \in Downloaders |-> "idle"]
    /\ dcall = [t \in Downloaders |-> NoCall]

DownloadCall(t, fn, path) ==
    /\ dpc[t] = "idle"
    /\ dpc' = [dpc EXCEPT ![t] = IF is_cached(fn) THEN "exists" ELSE "create"]
    /\ dcall' = [dcall EXCEPT ![t] =
                    [NoCall EXCEPT !.fn = fn, !.path = path, !.result = "pending",
                                   !.again =
                                       \E o \in Downloaders :
                                          /\ dpc[o] = "done"
                                          /\ dcall[o].fn = fn
                                          /\ dcall[o].path = path
                                          /\ dcall[o].result = "ok"]]
    /\ UNCHANGED <<manifest_files, lib_files>>

\* if path.exists() { return Ok(()) }
DownloadExists(t) ==
    /\ dpc[t] = "exists"
    /\ LET exists == dcall[t].path \in DOMAIN FilesOf(dcall[t].fn)
           call == [dcall[t] EXCEPT !.existed = exists]
       IN IF returns_cached(exists)
          THEN DownloadEnds(t, call, "ok")
          ELSE /\ dpc' = [dpc EXCEPT ![t] = "create"]
               /\ dcall' = [dcall EXCEPT ![t] = call]
    /\ UNCHANGED <<manifest_files, lib_files>>

\* reqwest::blocking::get(url)?, the status check, DirBuilder::create and
\* fs::File::create(path)?: one of them fails, or the file is there and empty.
DownloadCreate(t) ==
    /\ dpc[t] = "create"
    /\ \/ /\ DownloadEnds(t, [dcall[t] EXCEPT !.get = TRUE], "err")
          /\ UNCHANGED <<manifest_files, lib_files>>
       \/ \E body \in Bodies(dcall[t].fn, dcall[t].path) :
             /\ dpc' = [dpc EXCEPT ![t] = "write"]
             /\ dcall' = [dcall EXCEPT ![t].get = TRUE, ![t].created = TRUE,
                                       ![t].content = body]
             /\ SetFiles(dcall[t].fn, create(FilesOf(dcall[t].fn), dcall[t].path))

\* res.bytes()?; file.write_all(&content)?; Ok(())
DownloadWrite(t) ==
    /\ dpc[t] = "write"
    /\ \/ /\ DownloadEnds(t, dcall[t], "err")
          /\ UNCHANGED <<manifest_files, lib_files>>
       \/ /\ DownloadEnds(t, dcall[t], "ok")
          /\ SetFiles(dcall[t].fn,
                      write_all(FilesOf(dcall[t].fn), dcall[t].path, dcall[t].content))

download(t) ==
    \/ DownloadExists(t)
    \/ DownloadCreate(t)
    \/ DownloadWrite(t)

\* ------------------------------------------------------- specifications
vars == <<fsVars, resolveVars, loadVars, processVars>>

Init == ResolveInit /\ LoadInit /\ ProcessInit /\ DownloadInit

\* resolve(base_url, work_dir, platform), called once on an empty cache, on
\* the URL that the BTreeMaps iterate first or on the one they iterate last.
Next ==
    \/ \E u \in {1, NumUrls} : ResolveCall(u, ThisPlatform)
    \/ fetch_manifests_inner({ThisPlatform}, MaxDeps, MaxRefs)
    \/ resolve

Spec == Init /\ [][Next]_vars

\* The same call, run by a thread that is not stopped and whose downloads
\* return: a step of fetch_manifests_inner or of resolve that can be taken
\* is taken.
NextTerminates ==
    \/ ResolveCall(1, ThisPlatform)
    \/ fetch_manifests_inner({ThisPlatform}, LoadMaxDeps, LoadMaxRefs)
    \/ resolve

SpecTerminates ==
    /\ Init
    /\ [][NextTerminates]_vars
    /\ WF_vars(fetch_manifests_inner({ThisPlatform}, LoadMaxDeps, LoadMaxRefs) \/ resolve)

\* load(url, work_dir), called once on an empty cache; the servers answer
\* with manifests for either platform.
NextLoad ==
    \/ \E u \in Urls : LoadCall(u)
    \/ fetch_manifests_inner(Platforms, LoadMaxDeps, LoadMaxRefs)
    \/ resolve
    \/ load_with_platform
    \/ LoadWithWasm

SpecLoad == Init /\ [][NextLoad]_vars

\* load_with_platform for the wasm platform, called MaxLoads times in a row
\* for one of NumPackages packages.
NextWasm ==
    \/ \E u \in 1..NumPackages : WasmCall(u)
    \/ fetch_manifests_inner({WasmPlatform}, LoadMaxDeps, LoadMaxDeps)
    \/ resolve
    \/ LoadWithWasm

SpecWasm == Init /\ [][NextWasm]_vars

\* resolve is called once on an empty cache, the servers
\* answer with manifests for either platform, and
\* get_all_cached_dependencies is called before it or after it has returned.
NextGather ==
    \/ ResolveCall(1, ThisPlatform)
    \/ fetch_manifests_inner(Platforms, LoadMaxDeps, LoadMaxRefs)
    \/ resolve
    \/ \E u \in {1, NumUrls} : rpc \in {"idle", "done"} /\ GatherCall(u)

SpecGather == Init /\ [][NextGather]_vars

\* A caller that holds a handle of each variant takes bindings from them and
\* calls the bindings against them, MaxInvocations times in all.
NextBind ==
    \/ \E l \in Libraries : GetFunction(l)
    \/ \E f \in functions, l \in Libraries : FunctionCall(f, l)

SpecBind == Init /\ [][NextBind]_vars

\* Threads that each call one function of download.rs once.
NextFetch ==
    \/ \E t \in Downloaders, fn \in DownloadFns : \E path \in Paths(fn) :
          /\ DownloadCall(t, fn, path)
          /\ UNCHANGED <<resolveVars, loadVars, processVars>>
    \/ \E t \in Downloaders :
          /\ download(t)
          /\ UNCHANGED <<resolveVars, loadVars, processVars>>

SpecFetch == Init /\ [][NextFetch]_vars

\* Threads that each call run_single_cached once, or that each call
\* run_multi_cached once: the two statics share nothing.
NextFallback ==
    \/ \E t \in Threads, fn \in EntryPoints, u \in 1..NumPackages :
          /\ \A o \in Threads : calls[o].fn \in {"none", fn}
          /\ RunCached(t, fn, u)
    \/ \E t \in Threads : run_cached_impl(t)

SpecFallback == Init /\ [][NextFallback]_vars

\* Threads that each call run_cached_load_with_platform once.
NextCache ==
    \/ \E t \in Threads, src \in Sources : CacheCall(t, src)
    \/ \E t \in Threads : run_cached_load_with_platform(t)

SpecCache == Init /\ [][NextCache]_vars

\* Threads that call run_cached_load_with_platform for one key, MaxCalls
\* times in all.
NextCacheAgain ==
    \/ \E t \in Threads :
          CallsMade < MaxCalls /\ CacheCall(t, Source(1, ThisPlatform))
    \/ \E t \in Threads : run_cached_load_with_platform(t)
    \/ \E t \in Threads : CacheAgain(t)

SpecCacheAgain == Init /\ [][NextCacheAgain]_vars

\* Threads that each call run_single_cached_with_platform once.
NextSingle ==
    \/ \E t \in Threads, src \in Sources : SingleCall(t, src)
    \/ \E t \in Threads : run_single_cached_with_platform(t)

SpecSingle == Init /\ [][NextSingle]_vars

\* The same calls on the keys of NumPackages packages, with callbacks that
\* may call run_single_cached_with_platform themselves.  Every thread keeps
\* running: a step of its call that can be taken is taken, which includes
\* that loads and callbacks end.
NextReenter ==
    \/ \E t \in Threads, u \in 1..NumPackages, p \in Platforms :
          SingleCall(t, Source(u, p))
    \/ \E t \in Threads : run_single_cached_with_platform(t)
    \/ \E t \in Threads : SingleReenter(t)

SpecReenter ==
    /\ Init
    /\ [][NextReenter]_vars
    /\ \A t \in Threads : WF_vars(run_single_cached_with_platform(t))

\* Threads that each call run_multi_cached_with_platform once.
NextMulti ==
    \/ \E t \in Threads, src \in Sources : MultiCall(t, src)
    \/ \E t \in Threads : run_multi_cached_with_platform(t)

SpecMulti == Init /\ [][NextMulti]_vars

\* The same calls on the keys of NumPackages packages.
NextPool ==
    \/ \E t \in Threads, u \in 1..NumPackages, p \in Platforms :
          MultiCall(t, Source(u, p))
    \/ \E t \in Threads : run_multi_cached_with_platform(t)

SpecPool == Init /\ [][NextPool]_vars

\* Threads that each call run_single_cached_with_platform or
\* run_multi_cached_with_platform once, for the host platform; a thread is
\* in the pooled cache from its first step until it returns.
NextRetry ==
    \/ \E t \in Threads, u \in 1..NumPackages :
          SingleCall(t, Source(u, ThisPlatform))
    \/ \E t \in Threads, u \in 1..NumPackages :
          MultiCall(t, Source(u, ThisPlatform))
    \/ \E t \in Threads :
          /\ pool_arc[t] = {}
          /\ run_single_cached_with_platform(t)
    \/ \E t \in Threads :
          /\ tpc[t] \in {"read", "write"} \/ pool_arc[t] # {}
          /\ run_multi_cached_with_platform(t)

SpecRetry == Init /\ [][NextRetry]_vars

\* ------------------------------------------------- the dllpack graph on disk
\* The manifest whose PlatformManifest a DllInfo was derived from.
ManifestOf(dll_info) == dll_info.url[1]

\* The DllPack dependencies that the manifest at u declares for platform p:
\* none unless it is cached complete and has an entry for p.
Declared(u, p) ==
    IF /\ u \in DOMAIN manifest_files
       /\ from_str(manifest_files[u])
       /\ p \in DOMAIN manifest_files[u].platforms
    THEN LET deps == manifest_files[u].platforms[p].dependencies
         IN {deps[k].url : k \in {j \in 1..Len(deps) : deps[j].type = "dllpack"}}
    ELSE {}

\* The DllPack edges of platform p, as a function of the declaring manifest.
Edges(p) == [u \in Urls |-> Declared(u, p)]

\* The least set that contains S and is closed under the edges E.
RECURSIVE Closure(_, _)
Closure(S, E) ==
    LET T == S \cup UNION {E[u] : u \in S}
    IN IF T = S THEN S ELSE Closure(T, E)

\* The manifests reachable from those of S through DllPack dependencies.
Reachable(S, p) == Closure(S, Edges(p))

Cyclic(u, p) ==
    LET E == Edges(p) IN
    \E v \in Closure({u}, E) : v \in Closure(E[v], E)

Positions(deps, u) == {j \in 1..Len(deps) : ManifestOf(deps[j]) = u}

\* ------------------------------------------------------------ the claims
\* C1: a successful resolve returns deps in a topological load order: every
\* dllpack dependency declared by the manifest of an entry stands at a
\* strictly earlier index of deps, or is the primary.
C1_TopologicalOrder ==
    resolve_result.status = "ok" =>
        LET deps == resolve_result.deps IN
        \A i \in 1..Len(deps) :
            \A d \in Declared(ManifestOf(deps[i]), platform) :
                \/ d = ManifestOf(resolve_result.primary)
                \/ \E j \in 1..(i - 1) : ManifestOf(deps[j]) = d

\* A diamond resolved: some manifest is declared by two other manifests, one
\* of them a dependency itself.
C1_Witness ==
    /\ resolve_result.status = "ok"
    /\ Len(resolve_result.deps) >= 3
    /\ \E a, b \in Urls, d \in Urls :
          /\ a # b /\ a # base_url /\ b # base_url
          /\ d \in Declared(a, platform) /\ d \in Declared(b, platform)

\* C2: a successful resolve returns exactly one entry of deps for every
\* manifest reachable from base_url other than base_url itself, and the
\* binary of base_url as the primary.
C2_ExactlyReachable ==
    resolve_result.status = "ok" =>
        LET deps == resolve_result.deps
            reached == Reachable({base_url}, platform) \ {base_url}
        IN
        /\ \A u \in reached : Cardinality(Positions(deps, u)) = 1
        /\ \A i \in 1..Len(deps) : ManifestOf(deps[i]) \in reached
        /\ resolve_result.primary = DllInfo(manifest_files[base_url].platforms[platform])

\* A manifest that two manifests declare is resolved.
C2_Witness ==
    /\ resolve_result.status = "ok"
    /\ \E a, b, d \in Urls :
          /\ a # b
          /\ d \in Declared(a, platform) /\ d \in Declared(b, platform)
    /\ Len(resolve_result.deps) >= 2

\* C3: when the manifests reachable from base_url were all fetched and their
\* DllPack dependencies form a cycle, resolve ends with
\* UnresolvedDependencies(platform) and returns no load order; the manifests
\* of the cycle were fetched.
C3_CycleFails ==
    (rpc = "done" /\ base_url \in DOMAIN dependency_map) =>
        LET cyclic == Cyclic(base_url, platform) IN
        /\ resolve_result.status = "ok" => ~cyclic
        /\ cyclic =>
              /\ resolve_result = Err(Error("UnresolvedDependencies", platform))
              /\ \A v \in Reachable({base_url}, platform) :
                    \E k \in 1..Len(fetch_log) : fetch_log[k] = v

\* A -> B -> A is refused.
C3_Witness ==
    /\ rpc = "done"
    /\ resolve_result = Err(Error("UnresolvedDependencies", platform))
    /\ \E b \in Urls \ {base_url} :
          /\ b \in Declared(base_url, platform)
          /\ base_url \in Declared(b, platform)

\* C4: when a manifest that resolve fetched and parsed has no entry for the
\* platform, resolve ends with PlatformNotSupported(platform) and returns
\* no result.
C4_PlatformNotSupported ==
    (/\ rpc = "done"
     /\ \E k \in 1..Len(fetch_log) :
           /\ fetch_log[k] \in DOMAIN manifest_files
           /\ from_str(manifest_files[fetch_log[k]])
           /\ platform \notin DOMAIN manifest_files[fetch_log[k]].platforms)
    => resolve_result = Err(Error("PlatformNotSupported", platform))

\* The platform is missing from a manifest two levels below the top.
C4_Witness ==
    /\ rpc = "done"
    /\ resolve_result = Err(Error("PlatformNotSupported", platform))
    /\ Len(fetch_log) >= 3
    /\ platform \in DOMAIN manifest_files[base_url].platforms

\* C5: load first attempts the host platform; wasm32-wasip1 is attempted if
\* and only if that attempt ended with PlatformNotSupported; any other error
\* of the first attempt, and its success, are the result of load.
C5_FallbackOnlyOnPlatformNotSupported ==
    /\ Len(load_attempts) <= 2
    /\ Len(load_attempts) >= 1 => load_attempts[1].platform = ThisPlatform
    /\ Len(load_attempts) = 2 =>
          /\ load_attempts[1].outcome = "PlatformNotSupported"
          /\ load_attempts[2].platform = WasmPlatform
    /\ lpc = "done" =>
          /\ load_attempts[1].outcome = "PlatformNotSupported" => Len(load_attempts) = 2
          /\ load_attempts[1].outcome = "ok" =>
                load_result.status = "ok" /\ load_result.library.kind = "native"
          /\ load_attempts[1].outcome \notin {"ok", "PlatformNotSupported"} =>
                /\ load_result.status = "err"
                /\ load_result.error.kind = load_attempts[1].outcome
          /\ load_result.status # "none"
          /\ load_attempts[Len(load_attempts)].outcome = Outcome(load_result)

\* The fallback was taken and gave a WebAssembly handle.
C5_Witness ==
    /\ lpc = "done"
    /\ Len(load_attempts) = 2
    /\ load_result.status = "ok"
    /\ load_result.library.kind = "wasm"

\* Handles of a sequence, as a set, and the places a handle is at.
Range(q) == {q[k] : k \in 1..Len(q)}
IdlePlaces(h) ==
    {<<k, j>> \in (DOMAIN pools) \X (1..NumThreads) :
        j <= Len(pools[k].available) /\ pools[k].available[j] = h}
Holders(h) == {t \in Threads : h \in guard[t]}

\* C6: every handle of a pool is at exactly one place, the idle stack of one
\* pool or the guard of one borrower, and callers whose callbacks run at the
\* same time hold different handles.
C6_NoSharedHandle ==
    /\ \A h \in handles : Cardinality(IdlePlaces(h)) + Cardinality(Holders(h)) = 1
    /\ \A t1, t2 \in Threads :
          (t1 # t2 /\ tpc[t1] = "run" /\ tpc[t2] = "run") => guard[t1] \cap guard[t2] = {}

\* Two callbacks for one key run at the same time, each on its own handle.
C6_Witness ==
    \E t1, t2 \in Threads :
        /\ t1 # t2
        /\ tpc[t1] = "run" /\ tpc[t2] = "run"
        /\ source[t1] = source[t2]
        /\ guard[t1] # {} /\ guard[t2] # {}

\* C7: when a call that borrowed a handle has ended, by a value, an error or
\* a panic of the callback, the handle is back on the idle stack of its pool
\* (or lent again) and no longer counted: in_use_count of every pool is the
\* number of guards that hold a handle of it.
C7_ReturnedOnEveryExit ==
    /\ \A t \in Threads :
          (tpc[t] = "done" /\ lib[t] # {}) =>
              /\ guard[t] = {}
              /\ outcome[t] \in RunOutcomes
              /\ \A h \in lib[t] :
                    \/ h \in Range(pools[Pool(t)].available)
                    \/ \E t2 \in Threads \ {t} : h \in guard[t2]
    /\ \A k \in DOMAIN pools :
          pools[k].in_use_count =
              Cardinality({t \in Threads : guard[t] # {} /\ pool_arc[t] = {k}})

\* The callback panicked; the handle is idle again and nothing is in use.
C7_Witness ==
    \E t \in Threads :
        /\ tpc[t] = "done"
        /\ outcome[t] = "panic"
        /\ lib[t] # {}
        /\ \A h \in lib[t] : h \in Range(pools[Pool(t)].available)
        /\ pools[Pool(t)].in_use_count = 0

\* C8 as stated: load_with_platform is called at most once for each key.
C8_LoadCalledOnce == \A src \in Sources : Len(load_log[src]) <= 1

\* C8, amended: load_with_platform returns a handle at most once for each
\* key; it is called again for a key only when every earlier call for that
\* key returned an error.
C8_LoadSucceedsOnce ==
    \A src \in Sources :
        \A k \in 1..(Len(load_log[src]) - 1) :
            load_log[src][k].result \in LoadOutcomes \ {"ok"}

\* A load that failed is followed by one that succeeds, for the same key.
C8_Witness ==
    \E src \in Sources :
        /\ Len(load_log[src]) = 2
        /\ load_log[src][2].result = "ok"
        /\ src \in DOMAIN SINGLE_CACHE

\* C9: no two callbacks of the single-instance cache for the same key run at
\* the same time, on a hit or on a miss.
C9_Serialized ==
    \A t1, t2 \in Threads :
        (/\ t1 # t2
         /\ tpc[t1] \in {"run_hit", "run_miss"}
         /\ tpc[t2] \in {"run_hit", "run_miss"})
        => source[t1] # source[t2]

\* A callback runs on a fresh handle while a caller of the same key waits.
C9_Witness ==
    \E t1, t2 \in Threads :
        /\ tpc[t1] = "run_miss"
        /\ tpc[t2] = "lock"
        /\ source[t1] = source[t2]

\* C10: when two threads that both missed on a key and both loaded a handle
\* have returned, the cache holds for the key the handle inserted later, and
\* the handle inserted earlier is dropped.
C10_LastWriterWins ==
    \A i, j \in 1..Len(insert_log) :
        (/\ i < j
         /\ insert_log[i].library.source = insert_log[j].library.source
         /\ \A k \in (j + 1)..Len(insert_log) :
               insert_log[k].library.source # insert_log[j].library.source)
        => /\ insert_log[i].thread # insert_log[j].thread
           /\ insert_log[i].library # insert_log[j].library
           /\ CACHE[insert_log[j].library.source] = insert_log[j].library
           /\ insert_log[i].library \in dropped
           /\ insert_log[j].library \notin dropped

\* Both threads missed on one key while nothing was cached, both have
\* returned.
C10_Witness ==
    /\ Len(insert_log) = 2
    /\ insert_log[1].library.source = insert_log[2].library.source
    /\ \A t \in Threads : tpc[t] = "done" /\ outcome[t] \in {"ok", "err"}

\* C11: of one key, no more handles are created than threads call the pooled
\* entry point on it, and in_use_count never exceeds their number; and
\* when every call has completed, the idle stack of the pool holds as many
\* handles as in_use_count was at its greatest, and in_use_count is zero.
C11_PoolHoldsPeak ==
    \A k \in DOMAIN pools :
        LET key == CHOOSE src \in DOMAIN MULTI_CACHE : MULTI_CACHE[src] = k
            created == {h \in handles : h.source = key}
            callers == {t \in Threads : tpc[t] # "idle" /\ source[t] = key}
        IN /\ Cardinality(created) <= Cardinality(callers)
           /\ pools[k].peak <= Cardinality(callers)
           /\ (\A t \in Threads : tpc[t] = "done") =>
                 /\ Len(pools[k].available) = pools[k].peak
                 /\ pools[k].in_use_count = 0

\* Every thread called on one key; two handles were in use at a time and one
\* callback panicked; both handles are idle.
C11_Witness ==
    /\ \A t \in Threads : tpc[t] = "done" /\ source[t] = source[1]
    /\ \E t \in Threads : outcome[t] = "panic"
    /\ \E k \in DOMAIN pools : pools[k].peak = 2 /\ Len(pools[k].available) = 2

\* The URLs of the binaries that the manifests reachable from u declare as
\* dependencies for platform p: the binary of every DllPack dependency and
\* the URL of every RawLib dependency.
NativeClosure(u, p) ==
    UNION {{IF dep.type = "dllpack" THEN <<dep.url, p>> ELSE dep.url :
               dep \in Range(manifest_files[v].platforms[p].dependencies)} :
           v \in Reachable({u}, p)}

\* C12 as stated: the deps of a Native handle that load_with_platform
\* returned hold a loaded library for every dependency, DllPack or RawLib,
\* that the primary's manifest or a manifest reached from it declares for
\* the platform.
C12_DepsHoldNativeClosure ==
    (lpc = "done" /\ load_result.status = "ok" /\ load_result.library.kind = "native") =>
        \A url \in NativeClosure(load_url, ThisPlatform) :
            \E j \in 1..Len(load_result.library.raw_dependencies) :
                load_result.library.raw_dependencies[j].url = url

\* C13: on the native path the dependencies are opened in the order that
\* resolve emitted and the primary after all of them: the libraries opened
\* so far are a prefix of that order, every library is opened after the
\* dllpack dependencies its manifest declares, and the handle holds the
\* primary and the dependencies in the order of resolve.
C13_OpenedInResolverOrder ==
    /\ lpc = "open" =>
          dependency_libs = SubSeq(resolve_result.deps, 1, Len(dependency_libs))
    /\ (lpc = "done" /\ load_result.status = "ok" /\ load_result.library.kind = "native") =>
          LET opened == load_result.library.raw_dependencies IN
          /\ opened = resolve_result.deps
          /\ load_result.library.raw_library = resolve_result.primary
          /\ \A d \in Declared(load_url, ThisPlatform) :
                \E j \in 1..Len(opened) : ManifestOf(opened[j]) = d
          /\ \A i \in 1..Len(opened) :
                \A d \in Declared(ManifestOf(opened[i]), ThisPlatform) :
                    \E j \in 1..(i - 1) : ManifestOf(opened[j]) = d

\* A chain of two dependencies is loaded: the handle holds the dependency of
\* the dependency first.
C13_Witness ==
    /\ lpc = "done"
    /\ load_result.status = "ok"
    /\ load_result.library.kind = "native"
    /\ Len(load_result.library.raw_dependencies) >= 2

\* C14 as stated, for a load whose manifests were all fetched: when the
\* primary's manifest entry for wasm32-wasip1 declares a dependency, DllPack
\* or RawLib, the load for wasm32-wasip1 ends with WasmWithDependencies and
\* returns no handle.
C14_WasmRejectsDependencies ==
    (/\ lpc = "done"
     /\ load_attempts[Len(load_attempts)].platform = WasmPlatform
     /\ resolve_result.status = "ok"
     /\ manifest_files[load_url].platforms[WasmPlatform].dependencies # <<>>)
    => load_result = LoadErr(Error("WasmWithDependencies", ""))

\* C15: after a successful wasm load of a package its side-cache file exists,
\* and every later wasm load of that package that gets as far as its Module
\* deserializes the side cache: it compiles nothing and writes nothing.
C15_LaterWasmLoadsDeserialize ==
    \A i \in 1..Len(load_attempts) :
        (load_attempts[i].platform = WasmPlatform /\ load_attempts[i].outcome = "ok")
        => /\ <<load_attempts[i].url, WasmPlatform>> \in DOMAIN module_files
           /\ \A j \in (i + 1)..Len(load_attempts) :
                 (/\ load_attempts[j].url = load_attempts[i].url
                  /\ load_attempts[j].outcome # "pending")
                 => load_attempts[j].module = "deserialized"

C15_Witness ==
    /\ Len(load_attempts) >= 2
    /\ load_attempts[1].outcome = "ok"
    /\ load_attempts[1].module = "compiled"
    /\ load_attempts[2].url = load_attempts[1].url
    /\ load_attempts[2].module = "deserialized"
    /\ lpc = "done"
\* C16: a call of cached_download_manifest or cached_download_lib that finds
\* its path existing returns Ok, sends no GET and creates or writes no file;
\* and on every directory reached the cached variants, asked for an existing
\* path, answer Ok with no GET and the directory as it was, whatever the
\* response of the server would be.
C16_CachedShortCircuits ==
    /\ \A t \in Downloaders :
          (is_cached(dcall[t].fn) /\ dcall[t].existed)
          => /\ dpc[t] = "done"
             /\ dcall[t].result = "ok"
             /\ ~dcall[t].get
             /\ ~dcall[t].created
    /\ \A path \in DOMAIN lib_files : \A r \in Responses :
          cached_download_on(lib_files, path, r, BinaryFile)
             = [ok |-> TRUE, get |-> FALSE, files |-> lib_files]
    /\ \A path \in DOMAIN manifest_files : \A r \in Responses :
          \A doc \in Bodies("cached_download_manifest", path) :
             cached_download_on(manifest_files, path, r, doc)
                = [ok |-> TRUE, get |-> FALSE, files |-> manifest_files]

C16_Witness ==
    \E t1, t2 \in Downloaders :
        /\ dcall[t1].fn = "cached_download_lib"
        /\ dcall[t1].created /\ dcall[t1].result = "err"
        /\ dcall[t2].fn = "cached_download_lib"
        /\ dcall[t2].path = dcall[t1].path
        /\ dcall[t2].existed
        /\ dpc[t2] = "done"
        /\ lib_files[dcall[t2].path] = TornFile

\* C17: on every directory reached, for every DllInfo and every response,
\* download_lib run twice leaves the directory that running it once leaves.
C17_FetchTwiceIsFetchOnce ==
    \A path \in Paths("download_lib") : \A r \in Responses :
        LET once == download_on(lib_files, path, r, BinaryFile) IN
        download_on(once.files, path, r, BinaryFile) = once

C17_Witness ==
    \E t1, t2 \in Downloaders :
        /\ dcall[t1].fn = "download_lib" /\ dcall[t2].fn = "download_lib"
        /\ dcall[t1].path = dcall[t2].path
        /\ t1 # t2
        /\ dcall[t2].again
        /\ dcall[t1].result = "ok" /\ dcall[t2].result = "ok"
        /\ lib_files[dcall[t2].path] = BinaryFile

\* C18: no file of the cache is created by two calls of the cached
\* downloads, so none is emptied or rewritten after it was created.
C18_CreatedOnce ==
    \A t1, t2 \in Downloaders :
        (/\ t1 # t2
         /\ is_cached(dcall[t1].fn)
         /\ dcall[t1].fn = dcall[t2].fn
         /\ dcall[t1].path = dcall[t2].path)
        => ~(dcall[t1].created /\ dcall[t2].created)
\* Whether the cache of entry point fn holds a handle under src: an entry of
\* SINGLE_CACHE; a handle of the pool of src, idle or lent to a guard.
HandleCached(fn, src) ==
    IF fn = "run_single_cached" THEN src \in DOMAIN SINGLE_CACHE
    ELSE /\ src \in DOMAIN MULTI_CACHE
         /\ \E h \in handles \ dropped :
               /\ h.source = src
               /\ \/ h \in Range(pools[MULTI_CACHE[src]].available)
                  \/ \E t \in Threads : h \in guard[t]
\* Whether any handle was ever made for src.
HandleExists(fn, src) ==
    IF fn = "run_single_cached" THEN src \in DOMAIN SINGLE_CACHE
    ELSE \E h \in handles : h.source = src
\* Thread t got a handle from load_with_platform.
Loaded(t) ==
    \E src \in Sources : \E k \in 1..Len(load_log[src]) :
        load_log[src][k].thread = t /\ load_log[src][k].result = "ok"
\* The call of t2 is the one that follows the call of t1 for the same URL:
\* it began after t1 returned, nothing returned in between, and no other
\* call was in progress while it ran.
NextAfter(t1, t2) ==
    /\ calls[t2].fn = calls[t1].fn
    /\ source[t2].url = source[t1].url
    /\ calls[t2].alone
    /\ t1 \in calls[t2].after
    /\ (calls[t2].after \ {t1}) \subseteq calls[t1].after

\* load_with_platform for the host platform, called by thread t, has returned
\* PlatformNotSupported.
HostLoadFailed(t) ==
    LET host == Source(source[t].url, ThisPlatform) IN
    \E k \in 1..Len(load_log[host]) :
        /\ load_log[host][k].thread = t
        /\ load_log[host][k].result = "PlatformNotSupported"

\* C19 as stated: once a call of run_single_cached or run_multi_cached has
\* returned Ok through the wasm32-wasip1 fallback, its cache holds a handle
\* under (url, wasm32-wasip1) and none under the host key, and the next call
\* of the same entry point for the URL runs its callback and loads no handle.
C19_FallbackHandleReused ==
    \A t1 \in Threads :
        (/\ calls[t1].fn \in EntryPoints
         /\ tpc[t1] = "done"
         /\ source[t1].platform = WasmPlatform
         /\ outcome[t1] = "ok")
        => /\ HandleCached(calls[t1].fn, Source(source[t1].url, WasmPlatform))
           /\ ~HandleExists(calls[t1].fn, Source(source[t1].url, ThisPlatform))
           /\ \A t2 \in Threads :
                 (NextAfter(t1, t2) /\ Finished(t2))
                 => /\ source[t2].platform = WasmPlatform
                    /\ outcome[t2] \in CallbackOutcomes(t2)
                    /\ ~Loaded(t2)

\* C19: once a call of run_single_cached or run_multi_cached whose load for
\* the host platform failed with PlatformNotSupported has returned Ok through
\* the wasm32-wasip1 fallback, its cache holds a handle under (url,
\* wasm32-wasip1) and none under the host key, and the next call of the same
\* entry point for the URL runs its callback and loads no handle.
C19_ReusedAfterFailedHostLoad ==
    \A t1 \in Threads :
        (/\ calls[t1].fn \in EntryPoints
         /\ tpc[t1] = "done"
         /\ source[t1].platform = WasmPlatform
         /\ HostLoadFailed(t1)
         /\ outcome[t1] = "ok")
        => /\ HandleCached(calls[t1].fn, Source(source[t1].url, WasmPlatform))
           /\ ~HandleExists(calls[t1].fn, Source(source[t1].url, ThisPlatform))
           /\ \A t2 \in Threads :
                 (NextAfter(t1, t2) /\ Finished(t2))
                 => /\ source[t2].platform = WasmPlatform
                    /\ outcome[t2] \in CallbackOutcomes(t2)
                    /\ ~Loaded(t2)

\* A pooled call that fell back after a failed host load and returned Ok, and
\* the call after it, which returned Ok as well.
C19_Witness ==
    \E t1, t2 \in Threads :
        /\ calls[t1].fn = "run_multi_cached"
        /\ tpc[t1] = "done"
        /\ source[t1].platform = WasmPlatform
        /\ HostLoadFailed(t1)
        /\ outcome[t1] = "ok"
        /\ NextAfter(t1, t2)
        /\ Finished(t2)
        /\ outcome[t2] = "ok"
\* C20 as stated: a call of run_cached_load_with_platform that began when
\* CACHE held an entry for its key finds the entry at its lookup and goes on
\* to run its callback on it.
C20_LaterCallsHit ==
    [][\A t \in Threads :
          (/\ calls[t].fn = "run_cached_load_with_platform"
           /\ calls[t].cached
           /\ tpc[t] = "lock"
           /\ tpc'[t] # "lock")
          => tpc'[t] = "run_hit"]_vars

\* C20: a call of run_cached_load_with_platform that began when CACHE held
\* an entry for its key and that takes the Mutex unpoisoned finds the entry
\* and goes on to run its callback on it, with no call of load_with_platform;
\* if a callback has panicked on a hit before, it panics at lock().unwrap().
C20_LaterCallsHitUnlessPoisoned ==
    [][\A t \in Threads :
          (/\ calls[t].fn = "run_cached_load_with_platform"
           /\ calls[t].cached
           /\ tpc[t] = "lock"
           /\ tpc'[t] # "lock")
          => IF cache_poisoned
             THEN tpc'[t] = "done" /\ outcome'[t] = "panic" /\ load_log' = load_log
             ELSE /\ tpc'[t] = "run_hit"
                  /\ source[t] \in DOMAIN CACHE
                  /\ load_log' = load_log]_vars

C20_Witness ==
    \E t \in Threads :
        /\ calls[t].fn = "run_cached_load_with_platform"
        /\ calls[t].cached
        /\ tpc[t] = "done"
        /\ outcome[t] = "ok"
        /\ ~cache_poisoned
        /\ Len(insert_log) >= 2

\* The backend a binding is bound to.
Backend(f) == IF f.variant = "LLFunction" THEN "native" ELSE "wasm"

\* C21: a call of a binding against a handle of the other backend is always
\* signalled (here: by the panic of Function::call) and never executes the
\* bound function.
C21_MismatchSignalled ==
    \A k \in 1..Len(invocations) :
        LET c == invocations[k] IN
        Backend(c.function) # c.library.kind => c.panic /\ ~c.executed

\* C22: a call of get_all_cached_dependencies returns None exactly when the
\* top-level manifest file is absent, sends no request, and leaves every file
\* of the working directory as it was.
C22_GatherReadsOnly ==
    [][gather_result' # gather_result =>
          /\ gather_result'.status = "none" <=>
                gather_result'.url \notin DOMAIN manifest_files
          /\ ~gather_result'.get
          /\ UNCHANGED <<manifest_files, lib_files, module_files>>]_vars

\* None for a package that is not cached, in a working directory where the
\* manifest and the binary of another package are.
C22_Witness ==
    /\ gather_result.status = "none"
    /\ gather_result.url \notin DOMAIN manifest_files
    /\ manifest_files # <<>>
    /\ lib_files # <<>>

\* The manifests that the traversal from u visits: those reachable through
\* the dllpack dependencies of every platform of the cached manifests.
Visited(u) ==
    {v \in Closure({u}, [w \in Urls |-> UNION {Declared(w, p) : p \in Platforms}]) :
        v \in DOMAIN manifest_files}

\* The artifacts on disk reachable from u: the dependent manifests, the
\* platform binaries of the visited manifests, the raw libraries they declare.
CachedArtifacts(u) ==
    {CachedManifest(v) : v \in Visited(u) \ {u}}
    \cup {CachedLib(url) :
            url \in {<<v, p>> : v \in Visited(u), p \in Platforms} \cap DOMAIN lib_files}
    \cup {CachedLib(r) : r \in RawLibUrls \cap DOMAIN lib_files}

\* C23: with the top-level manifest cached, the list returned holds a pair for
\* every artifact on disk that is reachable from U across all platforms.
C23_ListsEveryCachedArtifact ==
    (gather_result.status = "some" /\ rpc = "done") =>
        \A a \in CachedArtifacts(gather_result.url) :
            \E k \in 1..Len(gather_result.dependencies) :
                gather_result.dependencies[k] = a

\* C24: parsing a dllpack document succeeds only if its spec-version is
\* "1.0.0"; a resolve that reaches a manifest of another version ends with a
\* parse error and takes no PlatformManifest from it.
C24_OnlyVersionOne ==
    /\ \A doc \in DllPackFiles(1, Platforms, 1, 1) \cup {TornFile} :
          from_str(doc) => doc.spec_version = "1.0.0"
    /\ \A k \in 1..Len(fetch_log) :
          LET u == fetch_log[k] IN
          (/\ u \in DOMAIN manifest_files
           /\ manifest_files[u] # TornFile
           /\ manifest_files[u].spec_version # "1.0.0")
          => /\ resolve_result = Err(Error("Parse", ""))
             /\ u \notin DOMAIN result_map

\* A dependency two levels below the top has another spec-version.
C24_Witness ==
    /\ rpc = "done"
    /\ resolve_result = Err(Error("Parse", ""))
    /\ Len(fetch_log) >= 3
    /\ manifest_files[fetch_log[Len(fetch_log)]] # TornFile
    /\ manifest_files[fetch_log[Len(fetch_log)]].spec_version = "2.0.0"

\* C25: run_single_cached and run_multi_cached retry with wasm32-wasip1 only
\* when the load for the host platform failed with PlatformNotSupported; an
\* error that the callback returned on a host handle is never retried.
C25_RetryOnlyAfterFailedLoad ==
    \A t \in Threads : FallsBack(t) => HostLoadFailed(t)

\* Thread t is in the callback of its run_cached_load_with_platform call.
InCallback(t) ==
    /\ calls[t].fn = "run_cached_load_with_platform"
    /\ tpc[t] \in {"run_hit", "run_miss"}

\* C26: on a miss run_cached_load_with_platform invokes the callback on the
\* entry it has inserted, with the Mutex of CACHE held, so no two callbacks
\* for one key run at the same time.
C26_MissCallbackOnInsertedEntry ==
    /\ \A t \in Threads :
          (InCallback(t) /\ tpc[t] = "run_miss")
          => /\ cache_owner = {t}
             /\ source[t] \in DOMAIN CACHE
             /\ lib[t] = {CACHE[source[t]]}
    /\ \A t1, t2 \in Threads :
          (t1 # t2 /\ InCallback(t1) /\ InCallback(t2)) => source[t1] # source[t2]

C28_FetchedAtMostOnce ==
    \A i, j \in 1..Len(fetch_log) : fetch_log[i] = fetch_log[j] => i = j

\* A resolve returned Ok for a graph in which one manifest is declared by
\* two manifests, and twice by one of them.
C28_Witness ==
    /\ rpc = "done"
    /\ resolve_result.status = "ok"
    /\ \E u \in DOMAIN reverse_dependency_map :
          LET r == reverse_dependency_map[u] IN
          /\ \E i, j \in 1..Len(r) : r[i] # r[j]
          /\ \E i, j \in 1..Len(r) : i # j /\ r[i] = r[j]

\* C29: a call of resolve that was entered returns (Ok, Err or a panic),
\* whatever the manifests the servers hold: the recursion of
\* fetch_manifests_inner ends and the worklist loop empties.
C29_ResolveTerminates == (rpc # "idle") ~> (rpc = "done")

\* A resolve has returned for a graph with a cycle through two manifests.
C29_Witness ==
    /\ rpc = "done"
    /\ resolve_result = Err(Error("UnresolvedDependencies", platform))
    /\ \E a, b \in DOMAIN dependency_map :
          /\ a # b
          /\ \E i \in 1..Len(dependency_map[a]) : dependency_map[a][i] = b
          /\ \E i \in 1..Len(dependency_map[b]) : dependency_map[b][i] = a

\* C30: in the ordering phase of resolve no counter of remain_deps_counts
\* and not unresolved_count is decremented below zero (the subtraction would
\* panic), and no node is pushed on `available` twice: the worklist and
\* dependency_load_order hold no node twice, and the pushes counted by
\* unresolved_count are those of dependency_load_order plus at most the one
\* of base_url.  Repeated entries for one DllPack URL do not fail a resolve:
\* the unresolved-dependencies error is returned for cyclic graphs only, and
\* a resolve that returns Ok has every dependency once in its load order.
C30_CountersAndWorklist ==
    /\ resolve_result.status # "panic"
    /\ rpc \in {"kahn", "libs"} =>
          /\ \A i, j \in 1..Len(available) : available[i] = available[j] => i = j
          /\ \A i, j \in 1..Len(dependency_load_order) :
                dependency_load_order[i] = dependency_load_order[j] => i = j
          /\ Cardinality(DOMAIN result_map) - unresolved_count
                - Len(dependency_load_order) \in {0, 1}
    /\ (rpc = "done" /\ resolve_result = Err(Error("UnresolvedDependencies", platform)))
          => Cyclic(base_url, platform)
    /\ (rpc = "done" /\ resolve_result.status = "ok") =>
          /\ Len(resolve_result.deps) = Len(dependency_load_order)
          /\ \A d \in DOMAIN result_map \ {base_url} :
                Cardinality({k \in 1..Len(dependency_load_order) :
                                dependency_load_order[k] = d}) = 1

\* A resolve returned Ok for a manifest that lists one DllPack URL twice.
C30_Witness ==
    /\ rpc = "done"
    /\ resolve_result.status = "ok"
    /\ Len(dependency_map[base_url]) = 2
    /\ dependency_map[base_url][1] = dependency_map[base_url][2]
    /\ Len(resolve_result.deps) = 1

\* The guards that hold a handle of pool k.
HeldBy(k) == {t \in Threads : guard[t] # {} /\ pool_arc[t] = {k}}

\* C31: for every pool, in_use_count is the number of guards that hold one
\* of its handles and is never negative, in_use_count plus the length of
\* `available` is the number of handles load_with_platform has returned for
\* the key, and every one of these handles is on the idle stack or in a
\* guard: none was destroyed.
C31_PoolAccounting ==
    \A src \in DOMAIN MULTI_CACHE :
        LET k == MULTI_CACHE[src]
            pool == pools[k]
            loaded == {h \in handles : h.source = src}
            idle == {pool.available[i] : i \in 1..Len(pool.available)}
            held == UNION {guard[t] : t \in HeldBy(k)}
        IN /\ pool.in_use_count >= 0
           /\ pool.in_use_count = Cardinality(HeldBy(k))
           /\ pool.in_use_count + Len(pool.available) = Cardinality(loaded)
           /\ idle \cup held = loaded
           /\ idle \cap held = {}
           /\ dropped \cap loaded = {}

\* Two handles were loaded for one key; one is back on the idle stack, the
\* other is held by a guard.
C31_Witness ==
    \E k \in DOMAIN pools :
        /\ pools[k].in_use_count = 1
        /\ Len(pools[k].available) = 1

\* C32: a caller of the pooled cache holds the pool that MULTI_CACHE maps
\* its key to, so callers with one key hold one pool, also when they both
\* missed under the read lock; and no step removes a key of MULTI_CACHE or
\* maps it to another pool.
C32_OnePoolPerKey ==
    /\ [](\A t \in Threads :
            pool_arc[t] # {} =>
                /\ source[t] \in DOMAIN MULTI_CACHE
                /\ pool_arc[t] = {MULTI_CACHE[source[t]]})
    /\ [][\A src \in DOMAIN MULTI_CACHE :
            /\ src \in DOMAIN MULTI_CACHE'
            /\ MULTI_CACHE'[src] = MULTI_CACHE[src]]_vars

\* Two callers missed under the read lock: the first has inserted the pool
\* and borrowed from it, the second is about to take the write lock and
\* finds the key present.
C32_Witness ==
    \E t1, t2 \in Threads :
        /\ t1 # t2
        /\ source[t1] = source[t2]
        /\ guard[t1] # {}
        /\ tpc[t2] = "write"
        /\ source[t2] \in DOMAIN MULTI_CACHE
        /\ pool_arc[t1] = {MULTI_CACHE[source[t2]]}

\* C33: every call of run_single_cached_with_platform returns, also when
\* callbacks call the single-instance cache themselves.
C33_EveryCallReturns ==
    \A t \in Threads : (tpc[t] # "idle") ~> (tpc[t] = "done")

\* Every call ends, by a return or a panic, unless some callback has
\* re-entered the cache and is stuck on the lock its own thread holds.
C33_ReturnsUnlessReentered ==
    \A t \in Threads :
        (tpc[t] # "idle") ~>
            (tpc[t] = "done" \/ \E o \in Threads : tpc[o] = "deadlocked")

\* A callback is stuck in its nested call while another caller waits for
\* the lock.
C33_Witness ==
    \E t1, t2 \in Threads :
        /\ tpc[t1] = "deadlocked"
        /\ t1 \in single_owner
        /\ tpc[t2] = "lock"

\* The step in which the load_with_platform call of thread t returns an
\* error.
LoadFails(t) ==
    /\ tpc[t] = "load"
    /\ \E k \in 1..Len(load_log[source[t]]) :
          /\ load_log[source[t]][k] = Pending(t)
          /\ load_log'[source[t]][k].result \notin {"ok", "pending"}
          /\ outcome'[t] = load_log'[source[t]][k].result

\* The idle stack and the in-use counter of every pool.
PoolContents(ps) ==
    [k \in DOMAIN ps |-> <<ps[k].available, ps[k].in_use_count>>]

\* A load for the key of thread t has failed.
FailedBefore(t) ==
    \E k \in 1..Len(load_log[source[t]]) :
        load_log[source[t]][k].result \notin {"ok", "pending"}

\* The step in which thread t, with its cache locked, has looked its key up.
LooksUp(t) ==
    \/ /\ tpc[t] = "lock" /\ tpc'[t] # "lock"
       /\ IF calls[t].fn = "run_cached_load_with_platform"
          THEN ~cache_poisoned /\ source[t] \notin DOMAIN CACHE
          ELSE ~single_poisoned /\ source[t] \notin DOMAIN SINGLE_CACHE
    \/ /\ tpc[t] = "pool" /\ tpc'[t] # "pool"
       /\ pools[Pool(t)].available = <<>>

\* C34: when load_with_platform fails inside a cached entry point, the call
\* ends with that error without running the callback, no handle is created
\* or inserted in a cache, and no pool's idle stack or in-use counter
\* changes; a call for a key whose load has failed, finding no handle for
\* it, calls load_with_platform again.
C34_FailedLoadLeavesNoTrace ==
    [][\A t \in Threads :
          /\ LoadFails(t) =>
                /\ tpc'[t] = "done"
                /\ outcome'[t] \in LoadOutcomes \ {"ok"}
                /\ handles' = handles
                /\ lib' = lib
                /\ guard' = guard
                /\ CACHE' = CACHE
                /\ SINGLE_CACHE' = SINGLE_CACHE
                /\ MULTI_CACHE' = MULTI_CACHE
                /\ PoolContents(pools') = PoolContents(pools)
          /\ (FailedBefore(t) /\ LooksUp(t)) =>
                /\ tpc'[t] = "load"
                /\ Len(load_log'[source[t]]) = Len(load_log[source[t]]) + 1]_vars

\* The first load for a key failed to open the library; the next caller of
\* the key, which got the lock after that call had returned, is inside
\* load_with_platform.
C34_Witness ==
    \E t1, t2 \in Threads :
        /\ tpc[t1] = "done"
        /\ outcome[t1] = "DlOpen"
        /\ tpc[t2] = "load"
        /\ source[t2] = source[t1]
        /\ load_log[source[t2]] = <<[thread |-> t1, result |-> "DlOpen"], Pending(t2)>>

\* C35: after a download that failed, no file exists at its target path
\* (stated for a call that is the only one made on the directory so far).
C35_FailedDownloadLeavesNoFile ==
    \A t \in Downloaders :
        (/\ dpc[t] = "done"
         /\ dcall[t].result = "err"
         /\ \A o \in Downloaders \ {t} : dcall[o].fn = "none")
        => dcall[t].path \notin DOMAIN FilesOf(dcall[t].fn)

\* A manifest download failed after File::create; a cached fetch of the same
\* path has returned Ok without a GET, and the file is still the empty one.
C35_Witness ==
    \E t1, t2 \in Downloaders :
        /\ is_manifest(dcall[t1].fn) /\ dcall[t1].created
        /\ dpc[t1] = "done" /\ dcall[t1].result = "err"
        /\ dcall[t2].fn = "cached_download_manifest"
        /\ dcall[t2].path = dcall[t1].path
        /\ dpc[t2] = "done" /\ dcall[t2].result = "ok"
        /\ dcall[t2].existed /\ ~dcall[t2].get /\ ~dcall[t2].created
        /\ manifest_files[dcall[t2].path] = TornFile

\* C36: get_all_cached_dependencies returns on every working directory,
\* among them those whose cached manifests depend on each other in a cycle;
\* it gives no manifest twice to DllPackFile::from_file, lists no dependent
\* dllpack manifest twice, and does not list the top-level manifest.
C36_GatherVisitsOnce ==
    /\ \A u \in {1, NumUrls} :
          get_all_cached_dependencies(u).status \in {"none", "err", "some"}
    /\ gather_result.status # "not called" =>
          LET deps == gather_result.dependencies
              parsed == gather_result.parsed
          IN /\ gather_result.status \in {"none", "err", "some"}
             /\ \A i, j \in 1..Len(parsed) : parsed[i] = parsed[j] => i = j
             /\ \A i, j \in 1..Len(deps) :
                   (deps[i].kind = "manifest" /\ deps[i] = deps[j]) => i = j
             /\ \A i \in 1..Len(deps) : deps[i] # CachedManifest(gather_result.url)

\* The call has returned Some for a top-level manifest on a cycle of two
\* cached manifests, and has listed the other one.
C36_Witness ==
    /\ gather_result.status = "some"
    /\ \E b \in DOMAIN manifest_files \ {gather_result.url} :
          /\ b \in Declared(gather_result.url, ThisPlatform)
          /\ gather_result.url \in Declared(b, ThisPlatform)
          /\ gather_result.dependencies = <<CachedManifest(b)>>
          /\ gather_result.parsed = <<gather_result.url, b>>
====
